---- MODULE Spec2Model ----
(***************************************************************************)
(* react-tiny-store: the external store (TinyStore), the process-wide      *)
(* batching coordinator (BatchNotifier) and the code that calls them.      *)
(*                                                                         *)
(* Execution is single-threaded and synchronous, so the model is one call  *)
(* stack.  A frame is an activation of batch's work function, of           *)
(* BatchNotifier._flush, of TinyStore._notify or of a listener; the code   *)
(* running on top of the stack (or the top-level caller when the stack is  *)
(* empty) makes the next step.  A state value is a reference: two values   *)
(* are Object.is-equal exactly when they are the same number.              *)
(***************************************************************************)
EXTENDS Integers, Sequences, FiniteSets, TLC

\* ---------------------------------------------------------------- bounds
\* References a state can hold are 0..MaxVal.
MaxVal == 2
\* API calls made below the top level (inside a work function or a listener)
\* during one top-level call.
MaxFuel == 3

Stores == {"A", "B"}
Listeners == {"L1", "L2"}
Values == 0..MaxVal

\* The argument of setState: a plain value, or an updater function p => p + v
\* (v = 0 returns the reference it was given, v = 1 returns a new one).
PlainArgs == [fn : {FALSE}, v : Values]
UpdaterArgs == [fn : {TRUE}, v : 0..1]
SetStateArgs == PlainArgs \cup UpdaterArgs

VARIABLES
    state,      \* TinyStore._state, per store
    initial,    \* TinyStore._initial, per store
    listeners,  \* TinyStore._listeners, per store: a Set in insertion order
    depth,      \* BatchNotifier._depth
    queue,      \* BatchNotifier._queue: a Set of notifiers in insertion order
    stack,      \* the call stack, innermost activation last
    exc,        \* an exception is propagating
    fuel,       \* nested API calls left in the current top-level call
    made,       \* history: the value each store was constructed with
    op,         \* history: the current (or last) top-level call
    hits,       \* history: invocations of each listener by each store's
                \* notifier (0, 1, or 2 for "more than once")
    exit,       \* history: the states at the exit of the top-level batch
    sched,      \* history: enqueueNotify calls per store (0, 1, or 2 for more)
    last,       \* history: the setState call that has just returned
    hooks,      \* the selector hook of each consumer: its refs and what it rendered
    react,      \* what the UI runtime keeps besides: the Provider, the memo cells
                \* of the slice and controller hooks, the asynchronous flows
    owed        \* history: per store, the listeners subscribed at its last
                \* change and neither invoked nor removed since (kept by the
                \* specifications that start with `on`)

vars == <<state, initial, listeners, depth, queue, stack, exc, fuel, made,
          op, hits, exit, sched, last, hooks, react, owed>>

\* ------------------------------------------------------- JS Set, Object.is
Range(q) == {q[k] : k \in 1..Len(q)}

\* Fault: a list instead of a Set, which keeps every add.
SetAddDup(q, x) == Append(q, x)

\* Fault: adding an element that is present takes it away.
SetAddToggle(q, x) ==
    IF x \in Range(q) THEN SelectSeq(q, LAMBDA y : y # x) ELSE Append(q, x)

\* Set.prototype.add: appends unless present.
SetAdd(q, x) == IF x \in Range(q) THEN q ELSE Append(q, x)

\* Fault: an array and splice(indexOf(x), 1), which takes the last element
\* away when x is not there.
SetDeleteSplice(q, x) ==
    IF x \in Range(q)
    THEN SelectSeq(q, LAMBDA y : y # x)
    ELSE SubSeq(q, 1, Len(q) - 1)

\* Set.prototype.delete
SetDelete(q, x) == SelectSeq(q, LAMBDA y : y # x)

\* Array.from(set): a copy, in insertion order.
ArrayFrom(q) == q

\* Fault: no gate, every write counts as a change.
ObjectIsNever(a, b) == FALSE

ObjectIs(a, b) == a = b

IsFunction(u) == u.fn

\* (u as (p: T) => T)(p)
Apply(u, p) == p + u.v

\* const next = typeof u === "function" ? u(this._state) : u;
NextState(u, p) == IF IsFunction(u) THEN Apply(u, p) ELSE u.v

\* ----------------------------------------------------------------- frames
NoFrame == [kind |-> "none", s |-> "-", l |-> "-", run |-> <<>>, i |-> 0,
            pend |-> FALSE, o |-> "none", v |-> -1]

\* batch(fn): fn is running.
BatchFrame == [NoFrame EXCEPT !.kind = "batch"]

\* _flush: `run` is Array.from(this._queue), i the next notifier; pend is the
\* exception of the work function, rethrown when the finally block ends.
FlushFrame(r, p) == [NoFrame EXCEPT !.kind = "flush", !.run = r, !.i = 1, !.pend = p]

\* Fault: the pass goes over every listener, subscribed or not.
NotifyFrameAll(s, o, v) ==
    [NoFrame EXCEPT !.kind = "notify", !.s = s, !.run = <<"L1", "L2">>,
                    !.i = 1, !.o = o, !.v = v]

\* _notify of store s: `run` is Array.from(this._listeners), i the next
\* listener; o and v are the write that called it directly and the value that
\* write computed ("none" and -1 when _flush called it).
NotifyFrame(s, o, v) ==
    [NoFrame EXCEPT !.kind = "notify", !.s = s, !.run = ArrayFrom(listeners[s]),
                    !.i = 1, !.o = o, !.v = v]

\* listener l, invoked by the notifier of store s.
ListenerFrame(s, l) == [NoFrame EXCEPT !.kind = "listener", !.s = s, !.l = l]

Top == IF stack = <<>> THEN NoFrame ELSE stack[Len(stack)]
Pop == SubSeq(stack, 1, Len(stack) - 1)
Push(f) == Append(stack, f)
ReplaceTop(f) == Append(Pop, f)

\* Where an exception leaving the activations st lands: _notify, _flush and the
\* listeners catch nothing, so it passes them up to the nearest work function,
\* or to the top-level caller.
RECURSIVE Unwound(_)
Unwound(st) ==
    IF st = <<>> \/ st[Len(st)].kind = "batch"
    THEN st
    ELSE Unwound(SubSeq(st, 1, Len(st) - 1))

\* The activations left when the top one ends, with an exception (p) or not.
Leave(p) == IF p THEN Unwound(Pop) ELSE Pop

\* ---------------------------------------------------------------- history
\* A top-level call: its kind; for a write, the store, the state before and the
\* value computed; for subscribe and unsubscribe, the listener and whether it
\* was subscribed before; whether the call threw; whether a nested batch has
\* ended in it.
NoOp == [kind |-> "none", s |-> "-", prev |-> -1, next |-> -1,
         l |-> "-", had |-> FALSE, thrown |-> FALSE, inner |-> FALSE]
NoHits == [s \in Stores |-> [l \in Listeners |-> 0]]
NoExit == [s \in Stores |-> -1]
NoSched == [s \in Stores |-> 0]
NoLast == [o |-> "none", s |-> "-", v |-> -1]

\* What a returning write leaves in `last`: o is "setState" (plain value),
\* "update" (updater function), "replace" or "reset"; "none" is the notifier
\* returning into _flush.
Returned(o, s, v) ==
    IF o \in {"setState", "update", "replace", "reset"}
    THEN [o |-> o, s |-> s, v |-> v]
    ELSE NoLast

\* The notifications owed: none, and not kept.
NoOwed == [on |-> FALSE, of |-> [s \in Stores |-> {}]]

\* Store s has changed: its listeners of this moment are owed a notification.
Owe(s, ls) == IF owed.on THEN [owed EXCEPT !.of[s] = ls] ELSE owed

\* Listener l of store s is invoked, or removed: it is owed nothing.
Paid(s, l) == IF owed.on THEN [owed EXCEPT !.of[s] = @ \ {l}] ELSE owed

\* History counters tell "never", "once" and "more than once" apart.
Count(n) == IF n < 2 THEN n + 1 ELSE 2

AtTop == stack = <<>>

\* What a nested call takes from the budget: a call made by a listener takes
\* all of it but one call, which the batch it opens can use.
Cost == IF Top.kind = "listener" THEN MaxFuel - 1 ELSE 1

\* A top-level call starts a new history; a nested call continues it.
Hist(kind, s, next) ==
    /\ op' = IF AtTop
             THEN [NoOp EXCEPT !.kind = kind, !.s = s, !.next = next,
                               !.prev = IF s \in Stores THEN state[s] ELSE -1]
             ELSE op
    /\ fuel' = IF AtTop THEN MaxFuel ELSE fuel - Cost

\* The same for subscribe and unsubscribe of listener l.
HistL(kind, s, l) ==
    /\ op' = IF AtTop
             THEN [NoOp EXCEPT !.kind = kind, !.s = s, !.l = l,
                               !.prev = state[s],
                               !.had = (l \in Range(listeners[s]))]
             ELSE op
    /\ fuel' = IF AtTop THEN MaxFuel ELSE fuel - Cost

\* Back at the top level nothing is left of the call's budget.
Refuel == fuel' = IF stack' = <<>> THEN MaxFuel ELSE fuel

HitsNow == IF AtTop THEN NoHits ELSE hits
ExitNow == IF AtTop THEN NoExit ELSE exit
SchedNow == IF AtTop THEN NoSched ELSE sched

\* The code that makes a call is the top-level caller (the stack is empty, its
\* kind is "none"), a work function ("batch") or a listener; c is the set of
\* kinds of code the call is made from.
App == {"none", "batch"}
Reentrant == {"listener"}

CanCall(c) ==
    /\ ~exc
    /\ Top.kind \in c
    /\ AtTop \/ fuel >= Cost

\* ------------------------------------------------------- BatchNotifier
\* Fault: no batching, every notifier is called at once.
enqueueNow(s, o, v) ==
    /\ queue' = queue
    /\ stack' = Push(NotifyFrame(s, o, v))

\* Fault: a notifier enqueued while a flush is under way joins the queue.
enqueueInPass(s, o, v) ==
    IF depth > 0 \/ \E i \in 1..Len(stack) : stack[i].kind = "flush"
    THEN /\ queue' = SetAdd(queue, s)
         /\ stack' = stack
    ELSE /\ queue' = queue
         /\ stack' = Push(NotifyFrame(s, o, v))

\* Fault: a notifier whose pass is under way is not called again.
enqueueCoalesced(s, o, v) ==
    IF depth > 0
    THEN /\ queue' = SetAdd(queue, s)
         /\ stack' = stack
    ELSE /\ queue' = queue
         /\ stack' = IF \E i \in 1..Len(stack) :
                           stack[i].kind = "notify" /\ stack[i].s = s
                      THEN stack
                      ELSE Push(NotifyFrame(s, o, v))

\* BatchNotifier.enqueue(n), n being the _notify of store s; o is the calling
\* write and v the value it computed.
enqueue(s, o, v) ==
    IF depth > 0
    THEN /\ queue' = SetAdd(queue, s)
         /\ stack' = stack
    ELSE /\ queue' = queue
         /\ stack' = Push(NotifyFrame(s, o, v))

enqueueNotify(s, o, v) == enqueue(s, o, v)

\* Fault: the queue is cleared and no notifier is called.
_flushDrop(p) ==
    /\ queue' = <<>>
    /\ stack' = Leave(p)
    /\ exc' = p

\* Fault: the notifiers are called and the queue is not cleared.
_flushKeep(p) ==
    IF Len(queue) > 0
    THEN /\ queue' = queue
         /\ stack' = ReplaceTop(FlushFrame(ArrayFrom(queue), p))
         /\ exc' = FALSE
    ELSE /\ queue' = queue
         /\ stack' = Leave(p)
         /\ exc' = p

\* BatchNotifier._flush, entered from run's finally block with p: the work
\* function's exception is pending.
_flush(p) ==
    IF Len(queue) > 0
    THEN /\ queue' = <<>>
         /\ stack' = ReplaceTop(FlushFrame(ArrayFrom(queue), p))
         /\ exc' = FALSE
    ELSE /\ queue' = queue
         /\ stack' = Leave(p)
         /\ exc' = p

\* Fault: every batch that ends flushes, nested or not.
FinallyEach(p) ==
    /\ depth' = depth - 1
    /\ _flush(p)

\* Fault: the outermost batch flushes with the depth still at 1.
FinallyFlushFirst(p) ==
    /\ depth' = IF depth = 1 /\ Len(queue) > 0 THEN depth ELSE depth - 1
    /\ IF depth = 1
       THEN _flush(p)
       ELSE /\ queue' = queue
            /\ stack' = Leave(p)
            /\ exc' = p

\* finally { this._depth--; if (this._depth === 0) this._flush(); }
Finally(p) ==
    /\ depth' = depth - 1
    /\ IF depth - 1 = 0
       THEN _flush(p)
       ELSE /\ queue' = queue
            /\ stack' = Leave(p)
            /\ exc' = p

\* Fault: a flag in place of the counter, set when a batch starts.
runFlag(c) ==
    /\ CanCall(c)
    /\ depth' = 1
    /\ stack' = Push(BatchFrame)
    /\ Hist("batch", "-", -1)
    /\ hits' = HitsNow /\ exit' = ExitNow /\ sched' = SchedNow
    /\ last' = NoLast
    /\ UNCHANGED <<owed, react, hooks, state, initial, listeners, queue, exc, made>>

\* batch(fn) -> batching.run(fn): this._depth++ and fn starts.
run(c) ==
    /\ CanCall(c)
    /\ depth' = depth + 1
    /\ stack' = Push(BatchFrame)
    /\ Hist("batch", "-", -1)
    /\ hits' = HitsNow /\ exit' = ExitNow /\ sched' = SchedNow
    /\ last' = NoLast
    /\ UNCHANGED <<owed, react, hooks, state, initial, listeners, queue, exc, made>>

\* fn returns.
RunReturn ==
    /\ Top.kind = "batch" /\ ~exc
    /\ Finally(FALSE)
    /\ exit' = IF Len(stack) = 1 THEN state ELSE exit
    /\ Refuel
    /\ last' = NoLast
    /\ op' = IF depth > 1 THEN [op EXCEPT !.inner = TRUE] ELSE op
    /\ UNCHANGED <<owed, react, hooks, state, initial, listeners, made, hits, sched>>

\* Fault: run without try/finally, so a throw skips the decrement and the flush.
RunThrowBare ==
    /\ Top.kind = "batch"
    /\ stack' = Leave(TRUE)
    /\ exc' = TRUE
    /\ exit' = IF Len(stack) = 1 THEN state ELSE exit
    /\ Refuel
    /\ last' = NoLast
    /\ op' = IF depth > 1 THEN [op EXCEPT !.inner = TRUE] ELSE op
    /\ UNCHANGED <<owed, react, hooks, state, initial, listeners, depth, queue, made,
                   hits, sched>>

\* fn throws, or lets the exception of a call it made escape.
RunThrow ==
    /\ Top.kind = "batch"
    /\ Finally(TRUE)
    /\ exit' = IF Len(stack) = 1 THEN state ELSE exit
    /\ Refuel
    /\ last' = NoLast
    /\ op' = IF depth > 1 THEN [op EXCEPT !.inner = TRUE] ELSE op
    /\ UNCHANGED <<owed, react, hooks, state, initial, listeners, made, hits, sched>>

\* for (const n of run) n();
FlushStep ==
    /\ Top.kind = "flush" /\ ~exc
    /\ Top.i <= Len(Top.run)
    /\ stack' = Append(ReplaceTop([Top EXCEPT !.i = @ + 1]),
                       NotifyFrame(Top.run[Top.i], "none", -1))
    /\ last' = NoLast
    /\ UNCHANGED <<owed, react, hooks, state, initial, listeners, depth, queue, exc,
                   fuel, made, op, hits, exit, sched>>

\* _flush returns into the finally block, which ends: a pending exception
\* goes on to the caller of batch.
FlushReturn ==
    /\ Top.kind = "flush" /\ ~exc
    /\ Top.i > Len(Top.run)
    /\ stack' = Leave(Top.pend)
    /\ exc' = Top.pend
    /\ Refuel
    /\ last' = NoLast
    /\ UNCHANGED <<owed, react, hooks, state, initial, made, listeners, depth, queue, op,
                   hits, exit, sched>>

\* ------------------------------------------------------------- TinyStore
getState(s) == state[s]

\* Fault: the getter answers with the current state.
getInitialStateNow(s) == state[s]

getInitialState(s) == initial[s]

\* Fault: inside a batch the assignment is put off together with the notifier.
WriteLate(o, s, next) ==
    IF ~ObjectIs(next, state[s])
    THEN /\ state' = IF depth > 0 THEN state ELSE [state EXCEPT ![s] = next]
         /\ enqueueNotify(s, o, next)
         /\ sched' = [SchedNow EXCEPT ![s] = Count(@)]
         /\ owed' = Owe(s, Range(listeners[s]))
         /\ last' = IF depth > 0 THEN Returned(o, s, next) ELSE NoLast
    ELSE /\ UNCHANGED <<state, queue, stack, owed>>
         /\ sched' = SchedNow
         /\ last' = Returned(o, s, next)

\* if (!Object.is(next, this._state)) { this._state = next; enqueueNotify(this._notify); }
Write(o, s, next) ==
    IF ~ObjectIs(next, state[s])
    THEN /\ state' = [state EXCEPT ![s] = next]
         /\ enqueueNotify(s, o, next)
         /\ sched' = [SchedNow EXCEPT ![s] = Count(@)]
         /\ owed' = Owe(s, Range(listeners[s]))
         /\ last' = IF depth > 0 THEN Returned(o, s, next) ELSE NoLast
    ELSE /\ UNCHANGED <<state, queue, stack, owed>>
         /\ sched' = SchedNow
         /\ last' = Returned(o, s, next)

setState(c, s, u) ==
    /\ CanCall(c)
    /\ NextState(u, state[s]) \in Values
    /\ Write(IF IsFunction(u) THEN "update" ELSE "setState", s,
             NextState(u, state[s]))
    /\ Hist("setState", s, NextState(u, state[s]))
    /\ hits' = HitsNow /\ exit' = ExitNow
    /\ UNCHANGED <<react, hooks, initial, listeners, depth, exc, made>>

\* Fault: setState catches what the updater throws and returns.
setStateCatches(c, s) ==
    /\ CanCall(c)
    /\ last' = [o |-> "throw", s |-> s, v |-> -1]
    /\ Hist("setState", s, -1)
    /\ hits' = HitsNow /\ exit' = ExitNow /\ sched' = SchedNow
    /\ UNCHANGED <<owed, react, hooks, state, initial, listeners, depth, queue,
                   stack, exc, made>>

\* setState(u) with an updater u that throws: `u(this._state)` is evaluated
\* before the gate and the assignment, and setState catches nothing, so the
\* exception leaves for the work function or the top-level caller.
setStateThrows(c, s) ==
    /\ CanCall(c)
    /\ exc' = TRUE
    /\ stack' = Unwound(stack)
    /\ last' = [o |-> "throw", s |-> s, v |-> -1]
    /\ Hist("setState", s, -1)
    /\ hits' = HitsNow /\ exit' = ExitNow /\ sched' = SchedNow
    /\ UNCHANGED <<owed, react, hooks, state, initial, listeners, depth, queue, made>>

\* Fault: replace without the Object.is gate.
replaceUngated(c, s, next) ==
    /\ CanCall(c)
    /\ next \in Values
    /\ state' = [state EXCEPT ![s] = next]
    /\ enqueueNotify(s, "replace", next)
    /\ sched' = [SchedNow EXCEPT ![s] = Count(@)]
    /\ owed' = Owe(s, Range(listeners[s]))
    /\ last' = IF depth > 0 THEN Returned("replace", s, next) ELSE NoLast
    /\ Hist("replace", s, next)
    /\ hits' = HitsNow /\ exit' = ExitNow
    /\ UNCHANGED <<react, hooks, initial, listeners, depth, exc, made>>

replace(c, s, next) ==
    /\ CanCall(c)
    /\ Write("replace", s, next)
    /\ Hist("replace", s, next)
    /\ hits' = HitsNow /\ exit' = ExitNow
    /\ UNCHANGED <<react, hooks, initial, listeners, depth, exc, made>>

\* Fault: reset puts back the first value the store was written to, or leaves
\* the state when there is none: it writes the current state.
resetKeep(c, s) ==
    /\ CanCall(c)
    /\ Write("reset", s, state[s])
    /\ Hist("reset", s, state[s])
    /\ hits' = HitsNow /\ exit' = ExitNow
    /\ UNCHANGED <<react, hooks, initial, listeners, depth, exc, made>>

\* Fault: reset assigns and notifies whatever the state is.
resetUngated(c, s) ==
    /\ CanCall(c)
    /\ state' = [state EXCEPT ![s] = initial[s]]
    /\ enqueueNotify(s, "reset", initial[s])
    /\ sched' = [SchedNow EXCEPT ![s] = Count(@)]
    /\ owed' = Owe(s, Range(listeners[s]))
    /\ last' = IF depth > 0 THEN Returned("reset", s, initial[s]) ELSE NoLast
    /\ Hist("reset", s, initial[s])
    /\ hits' = HitsNow /\ exit' = ExitNow
    /\ UNCHANGED <<react, hooks, initial, listeners, depth, exc, made>>

reset(c, s) ==
    /\ CanCall(c)
    /\ Write("reset", s, initial[s])
    /\ Hist("reset", s, initial[s])
    /\ hits' = HitsNow /\ exit' = ExitNow
    /\ UNCHANGED <<react, hooks, initial, listeners, depth, exc, made>>

\* Fault: the listeners are kept in an array, to which subscribe pushes.
subscribePush(c, s, l) ==
    /\ CanCall(c)
    /\ listeners' = [listeners EXCEPT ![s] = Append(@, l)]
    /\ HistL("subscribe", s, l)
    /\ hits' = HitsNow /\ exit' = ExitNow /\ sched' = SchedNow
    /\ last' = NoLast
    /\ UNCHANGED <<owed, state, initial, depth, queue, stack, exc, made>>

\* subscribe = (l) => { this._listeners.add(l); return () => this._listeners.delete(l); }
subscribe(c, s, l) ==
    /\ CanCall(c)
    /\ listeners' = [listeners EXCEPT ![s] = SetAdd(@, l)]
    /\ HistL("subscribe", s, l)
    /\ hits' = HitsNow /\ exit' = ExitNow /\ sched' = SchedNow
    /\ last' = NoLast
    /\ UNCHANGED <<owed, state, initial, depth, queue, stack, exc, made>>

\* Fault: no snapshot, so a removal also takes the listener out of the passes
\* under way, whose later entries move up one place.
unsubscribeLive(c, s, l) ==
    /\ CanCall(c)
    /\ listeners' = [listeners EXCEPT ![s] = SetDelete(@, l)]
    /\ stack' = [k \in 1..Len(stack) |->
                    IF stack[k].kind = "notify" /\ stack[k].s = s
                    THEN [stack[k] EXCEPT !.run = SetDelete(@, l)]
                    ELSE stack[k]]
    /\ HistL("unsubscribe", s, l)
    /\ hits' = HitsNow /\ exit' = ExitNow /\ sched' = SchedNow
    /\ last' = NoLast
    /\ owed' = Paid(s, l)
    /\ UNCHANGED <<state, initial, depth, queue, exc, made>>

\* Fault: the function subscribe returned removes nothing.
unsubscribeKeep(c, s, l) ==
    /\ CanCall(c)
    /\ listeners' = listeners
    /\ HistL("unsubscribe", s, l)
    /\ hits' = HitsNow /\ exit' = ExitNow /\ sched' = SchedNow
    /\ last' = NoLast
    /\ UNCHANGED <<owed, state, initial, depth, queue, stack, exc, made>>

\* The function subscribe returned, called (any number of times).
unsubscribe(c, s, l) ==
    /\ CanCall(c)
    /\ listeners' = [listeners EXCEPT ![s] = SetDelete(@, l)]
    /\ HistL("unsubscribe", s, l)
    /\ hits' = HitsNow /\ exit' = ExitNow /\ sched' = SchedNow
    /\ last' = NoLast
    /\ owed' = Paid(s, l)
    /\ UNCHANGED <<state, initial, depth, queue, stack, exc, made>>

\* _notify: for (const l of Array.from(this._listeners)) l();
NotifyStep ==
    /\ Top.kind = "notify" /\ ~exc
    /\ Top.i <= Len(Top.run)
    /\ LET l == Top.run[Top.i]
       IN /\ stack' = Append(ReplaceTop([Top EXCEPT !.i = @ + 1]),
                             ListenerFrame(Top.s, l))
          /\ hits' = [hits EXCEPT ![Top.s][l] = Count(@)]
          /\ owed' = Paid(Top.s, l)
    /\ last' = NoLast
    /\ UNCHANGED <<react, hooks, state, initial, listeners, depth, queue, exc, fuel, made,
                   op, exit, sched>>

\* _notify returns; when a write called it, the write returns too.
NotifyReturn ==
    /\ Top.kind = "notify" /\ ~exc
    /\ Top.i > Len(Top.run)
    /\ stack' = Pop
    /\ Refuel
    /\ last' = Returned(Top.o, Top.s, Top.v)
    /\ UNCHANGED <<owed, react, hooks, state, initial, made, listeners, depth, queue,
                   exc, op, hits, exit, sched>>

\* ------------------------------------------------------ calling code
ListenerReturn ==
    /\ Top.kind = "listener" /\ ~exc
    /\ stack' = Pop
    /\ last' = NoLast
    /\ UNCHANGED <<owed, react, hooks, state, initial, listeners, depth, queue, exc,
                   fuel, made, op, hits, exit, sched>>

\* A work function catches the exception of a call it made.
Catch ==
    /\ exc /\ Top.kind = "batch"
    /\ exc' = FALSE
    /\ last' = NoLast
    /\ UNCHANGED <<owed, react, hooks, state, initial, made, listeners, depth, queue,
                   stack, fuel, op, hits, exit, sched>>

\* The exception reaches the top-level caller.
Uncaught ==
    /\ exc /\ AtTop
    /\ exc' = FALSE
    /\ op' = [op EXCEPT !.thrown = TRUE]
    /\ last' = NoLast
    /\ UNCHANGED <<owed, react, hooks, state, initial, made, listeners, depth, queue,
                   stack, fuel, hits, exit, sched>>

\* A listener throws.
ListenerThrow ==
    /\ Top.kind = "listener" /\ ~exc
    /\ exc' = TRUE
    /\ stack' = Leave(TRUE)
    /\ last' = NoLast
    /\ UNCHANGED <<owed, react, hooks, state, initial, made, listeners, depth, queue,
                   fuel, op, hits, exit, sched>>

\* ------------------------------------------------------- selector hooks
\* The state of a store is an object of two fields: the reference v names the
\* object whose field a is v \div 2 and whose field b is v % 2.
FieldA(v) == v \div 2
FieldB(v) == v % 2

\* The selector functions a consumer passes, each name one function identity:
\* s => s.a (two closures of it, "a" and "a2") and s => s.b return a
\* primitive, s => ({a: s.a}) builds a new object at every call.
Selectors == {"a", "a2", "b", "obj"}

\* The equality functions a consumer passes: Object.is (the default), one that
\* compares the contents (of two primitives or of two objects; a primitive is
\* not equal to an object), one that always reports equal.
Equalities == {"is", "eqv", "always"}

\* A selected value: its content, its identity (0 for a primitive, which has
\* none besides its content) and, as history, the selector that produced it.
NoInst == [val |-> -1, id |-> 0, by |-> "-"]

\* The refs of a hook (selRef, eqRef, last), the value its last poll returned
\* (ret) and the value its component last rendered (value).
NoHook == [mounted |-> FALSE, sel |-> "-", eq |-> "-", last |-> NoInst,
           ret |-> NoInst, value |-> NoInst]

\* The object identities some hook still holds, and one that none holds.
UsedIds(h) ==
    UNION {{h[c].last.id, h[c].ret.id, h[c].value.id} : c \in Listeners}

NewId(h) ==
    CHOOSE i \in 1..(3 * Cardinality(Listeners) + 1) :
        /\ i \notin UsedIds(h)
        /\ \A j \in 1..(i - 1) : j \in UsedIds(h)

\* Fault: every selector selects the whole state.
selectorRoot(sel, v, id) ==
    [val |-> v, id |-> IF sel = "obj" THEN id ELSE 0, by |-> sel]

\* selector(store.getState()) for the hooks' store; id names the object a
\* selector that builds one returns.
selector(sel, v, id) ==
    [val |-> IF sel = "b" THEN FieldB(v) ELSE FieldA(v),
     id |-> IF sel = "obj" THEN id ELSE 0,
     by |-> sel]

\* Fault: the equality function passed is not used, Object.is is.
isEqualDefault(eq, x, y) ==
    x.id = y.id /\ x.val = y.val

\* isEqual(x, y)
isEqual(eq, x, y) ==
    CASE eq = "is" -> x.id = y.id /\ x.val = y.val
      [] eq = "eqv" -> x.val = y.val /\ (x.id = 0 <=> y.id = 0)
      [] OTHER -> TRUE

\* The store the hooks of this model read.
HookStore == "A"

\* Fault: when the values are equal the new one is returned, not the baseline.
getSnapNext(h, c) ==
    LET next == selector(h[c].sel, getState(HookStore), NewId(h))
        prev == h[c].last
    IN  IF isEqual(h[c].eq, prev, next)
        THEN [h EXCEPT ![c].ret = next]
        ELSE [h EXCEPT ![c].last = next, ![c].ret = next]

\* getSnap of consumer c, h being the hooks: the refs after the call and the
\* value returned.
getSnap(h, c) ==
    LET next == selector(h[c].sel, getState(HookStore), NewId(h))
        prev == h[c].last
    IN  IF isEqual(h[c].eq, prev, next)
        THEN [h EXCEPT ![c].ret = prev]
        ELSE [h EXCEPT ![c].last = next, ![c].ret = next]

\* Fault: the server snapshot is selected from the current state.
getServerSnapNow(h, c) ==
    selector(h[c].sel, getState(HookStore), NewId(h))

\* getServerSnap of consumer c: selRef.current(store.getInitialState())
getServerSnap(h, c) ==
    selector(h[c].sel, getInitialState(HookStore), NewId(h))

\* The body of useStoreSelector at the first render of consumer c: the refs
\* are created from the arguments.
useRefs(h, c, sel, eq) ==
    LET first == selector(sel, getState(HookStore), NewId(h))
    IN  [h EXCEPT ![c] = [mounted |-> TRUE, sel |-> sel, eq |-> eq, last |-> first,
                          ret |-> NoInst, value |-> NoInst]]

\* The body at a later render: if selector or equality changes, re-seed the
\* baseline immediately.
reseed(h, c, sel, eq) ==
    IF h[c].sel # sel \/ h[c].eq # eq
    THEN LET fresh == selector(sel, getState(HookStore), NewId(h))
         IN  [h EXCEPT ![c].sel = sel, ![c].eq = eq, ![c].last = fresh]
    ELSE h

\* useSyncExternalStore(store.subscribe, getSnap, getServerSnap) in a render:
\* the value rendered is the one getSnap returns.
rendered(h, c) ==
    LET g == getSnap(h, c)
    IN  [g EXCEPT ![c].value = g[c].ret]

\* The component of consumer c mounts: its first render, then the runtime
\* subscribes the hook's listener to the store.
Mount(c, sel, eq) ==
    /\ ~hooks[c].mounted
    /\ subscribe({"none"}, HookStore, c)
    /\ hooks' = rendered(useRefs(hooks, c, sel, eq), c)

\* The component renders again, with the same or with other arguments.
Render(c, sel, eq) ==
    /\ hooks[c].mounted
    /\ CanCall({"none"})
    /\ hooks' = rendered(reseed(hooks, c, sel, eq), c)
    /\ HistL("render", HookStore, c)
    /\ hits' = NoHits /\ exit' = NoExit /\ sched' = NoSched
    /\ last' = NoLast
    /\ UNCHANGED <<owed, state, initial, listeners, depth, queue, stack, exc, made>>

\* The component unmounts: the runtime calls the function subscribe returned,
\* and the refs go with the component; what it rendered last is kept here.
Unmount(c) ==
    /\ hooks[c].mounted
    /\ unsubscribe({"none"}, HookStore, c)
    /\ hooks' = [hooks EXCEPT ![c] = [NoHook EXCEPT !.value = hooks[c].value]]

\* The listener the runtime subscribed for a hook: it polls getSnap, and
\* schedules a render when the value returned is not the one rendered.
HookListener ==
    /\ Top.kind = "listener" /\ ~exc
    /\ hooks' = getSnap(hooks, Top.l)
    /\ stack' = Pop
    /\ last' = NoLast
    /\ UNCHANGED <<owed, react, state, initial, listeners, depth, queue, exc, fuel,
                   made, op, hits, exit, sched>>

\* The runtime has a render of consumer c scheduled.
Scheduled(c) ==
    hooks[c].mounted /\ ~isEqual("is", hooks[c].value, hooks[c].ret)

\* ------------------------------------------------ slices and controllers
\* A memo cell of React.useMemo: the deps of the render that computed the
\* value, the identity of the object computed (0: nothing yet), and the deps
\* of the latest render (history).
NoMemo == [deps |-> "-", id |-> 0, arg |-> "-"]

\* The calls of an asynchronous controller action that are under way.
Flows == {"F1", "F2"}

\* A call of addAndPersist: pc is "idle" (not called, or finished), "add" (the
\* segment before the await is running), "await", or "remove" (the segment
\* after the await is running); seen is the state the call last saw when a
\* segment of it ended.
NoFlow == [pc |-> "idle", seen |-> -1]

\* null, which a Provider may be given as the initial state.
Null == -1

\* The Provider of a context before its first render: no store, hydRef.current
\* null; stores counts the calls of makeStore.
NoProvider == [mounted |-> FALSE, hyd |-> Null, stores |-> 0]

NoReact == [slice |-> [c \in Listeners |-> NoMemo],
            ctrl |-> [c \in Listeners |-> NoMemo],
            provider |-> NoProvider,
            flow |-> [f \in Flows |-> NoFlow]]

\* The identities of the objects the memo cells hold, and one none holds.
UsedObjs(r) ==
    {r.slice[c].id : c \in Listeners} \cup {r.ctrl[c].id : c \in Listeners}

NewObj(r) ==
    CHOOSE i \in 1..(2 * Cardinality(Listeners) + 1) :
        /\ i \notin UsedObjs(r)
        /\ \A j \in 1..(i - 1) : j \in UsedObjs(r)

\* Fault: the deps are ignored, the first value is kept.
useMemoFirst(cell, deps, id) ==
    IF cell.id # 0 THEN [cell EXCEPT !.arg = deps]
                   ELSE [deps |-> deps, id |-> id, arg |-> deps]

\* Fault: the value is computed again at every render.
useMemoAlways(cell, deps, id) == [deps |-> deps, id |-> id, arg |-> deps]

\* React.useMemo(() => value, deps): the value kept while the deps are those
\* of the render that computed it; id is the object a computation would make.
useMemo(cell, deps, id) ==
    IF cell.id # 0 /\ cell.deps = deps
    THEN [cell EXCEPT !.arg = deps]
    ELSE [deps |-> deps, id |-> id, arg |-> deps]

\* The transition functions of a slice with their arguments, fns[key](root,
\* ...args), each named by what it adds to the reference of the root.
SliceArgs == 0..1

pure(root, k) == root + k

\* The selectors a slice is created with.
Selects(c) == IF c = "L1" THEN {"a", "b"} ELSE {"b"}

\* Fault: the transition function is applied to the state of construction.
actionsStale(c, k) ==
    setState(c, HookStore,
             [fn |-> TRUE, v |-> pure(initial[HookStore], k) - state[HookStore]])

\* actions[key](...args): store.setState((prev) => pure(prev, ...args))
actions(c, k) ==
    setState(c, HookStore, [fn |-> TRUE, v |-> pure(0, k)])

\* Fault: get answers with the value of the component's last render.
getRendered(c) == hooks[c].value

\* get(): select(store.getState()), of the slice hook of consumer c
get(c) == selector(hooks[c].sel, getState(HookStore), NewId(hooks))

\* The first render of a component calling useSlice(): useStoreSelector(store,
\* select) with the default equality, and the memo cell of the bound actions.
useSliceMount(c, select) ==
    /\ Mount(c, select, "is")
    /\ react' = [react EXCEPT !.slice[c] = useMemo(NoMemo, HookStore, NewObj(react))]

\* A later render of the component.
useSlice(c) ==
    /\ Render(c, hooks[c].sel, "is")
    /\ react' = [react EXCEPT !.slice[c] = useMemo(@, HookStore, NewObj(react))]

\* The component unmounts, and its memo cell goes with it.
useSliceUnmount(c) ==
    /\ Unmount(c)
    /\ react' = [react EXCEPT !.slice[c] = NoMemo]

\* The deps arrays a controller hook is called with, compared element by
\* element with Object.is; "d0" is the default [].
Deps == {"d0", "d1"}

\* The components that call a controller hook.
Controllers == {"L1"}

\* A render of component c calling useStoreActions(store, factory, deps), or
\* the hook bindStoreActions returned: factory(api) builds an actions object
\* in every render, and useMemo(() => built, deps) decides which one the hook
\* returns.
useStoreActions(c, deps) ==
    /\ CanCall({"none"})
    /\ react' = [react EXCEPT !.ctrl[c] = useMemo(@, deps, NewObj(react))]
    /\ HistL("useActions", HookStore, c)
    /\ hits' = NoHits /\ exit' = NoExit /\ sched' = NoSched
    /\ last' = NoLast
    /\ UNCHANGED <<owed, hooks, state, initial, listeners, depth, queue, stack, exc, made>>

\* The component unmounts.
useStoreActionsUnmount(c) ==
    /\ CanCall({"none"})
    /\ react.ctrl[c].id # 0
    /\ react' = [react EXCEPT !.ctrl[c] = NoMemo]
    /\ HistL("unmount", HookStore, c)
    /\ hits' = NoHits /\ exit' = NoExit /\ sched' = NoSched
    /\ last' = NoLast
    /\ UNCHANGED <<owed, hooks, state, initial, listeners, depth, queue, stack, exc, made>>

\* ------------------------------------------- createContextSync (context store)
\* The getSnapshot closure createContextSync.useSelector made at the last
\* render of consumer c, v being ctx.store.getState(): it calls the selector
\* and the equality of that render, and reads and writes the ref last.
ctxGetSnapshot(h, c, v) ==
    LET next == selector(h[c].sel, v, NewId(h))
    IN  IF isEqual(h[c].eq, h[c].last, next)
        THEN [h EXCEPT ![c].ret = h[c].last]
        ELSE [h EXCEPT ![c].last = next, ![c].ret = next]

\* The body of createContextSync.useSelector in a render of consumer c:
\* React.useRef keeps the ref last of the first render, whatever the selector
\* and the equality of this one are; the value rendered is the one the new
\* closure returns.
ctxUseSelector(h, c, sel, eq, v) ==
    LET first == selector(sel, v, NewId(h))
        refs == IF h[c].mounted
                THEN [h EXCEPT ![c].sel = sel, ![c].eq = eq]
                ELSE [h EXCEPT ![c] = [mounted |-> TRUE, sel |-> sel, eq |-> eq,
                                       last |-> first, ret |-> NoInst,
                                       value |-> NoInst]]
        g == ctxGetSnapshot(refs, c, v)
    IN  [g EXCEPT ![c].value = g[c].ret]

\* listeners.forEach((l) => l()), from the k-th listener on: every listener
\* is the one the runtime subscribed for a hook, and polls its getSnapshot.
RECURSIVE ctxForEach(_, _, _, _)
ctxForEach(h, ls, k, v) ==
    IF k > Len(ls) THEN h
    ELSE ctxForEach(ctxGetSnapshot(h, ls[k], v), ls, k + 1, v)

\* What setState and replace of the context store do with the value next.
\* The store knows nothing of batch(): called from a work function it does
\* the same as called from the top level.
ctxWrite(o, next) ==
    /\ CanCall(App)
    /\ next \in Values
    /\ IF ~ObjectIs(next, state[HookStore])
       THEN /\ state' = [state EXCEPT ![HookStore] = next]
            /\ hooks' = ctxForEach(hooks, listeners[HookStore], 1, next)
            /\ hits' = [HitsNow EXCEPT ![HookStore] =
                           [l \in Listeners |->
                               IF l \in Range(listeners[HookStore])
                               THEN Count(@[l]) ELSE @[l]]]
            /\ sched' = IF AtTop THEN NoSched
                                 ELSE [sched EXCEPT ![HookStore] = Count(@)]
       ELSE /\ state' = state
            /\ hooks' = hooks
            /\ hits' = HitsNow
            /\ sched' = SchedNow
    /\ Hist(o, HookStore, next)
    /\ exit' = ExitNow
    /\ last' = IF depth > 0 THEN Returned(o, HookStore, next) ELSE NoLast
    /\ UNCHANGED <<owed, initial, listeners, depth, queue, stack, exc, made>>

\* makeStore(initial).setState of the Provider's store
ctxSetState(u) == ctxWrite("setState", NextState(u, state[HookStore]))

\* makeStore(initial).replace
ctxReplace(next) == ctxWrite("replace", next)

\* A component calling createContextSync.useSelector mounts: its first render,
\* then the runtime subscribes the hook's listener to the context store.
ctxMount(c, sel, eq) ==
    /\ AtTop /\ ~exc
    /\ ~hooks[c].mounted
    /\ hooks' = ctxUseSelector(hooks, c, sel, eq, state[HookStore])
    /\ listeners' = [listeners EXCEPT ![HookStore] = SetAdd(@, c)]
    /\ HistL("subscribe", HookStore, c)
    /\ hits' = NoHits /\ exit' = NoExit /\ sched' = NoSched
    /\ last' = NoLast
    /\ UNCHANGED <<owed, state, initial, depth, queue, stack, exc, made>>

\* The component renders again, with the same or with other arguments.
ctxRender(c, sel, eq) ==
    /\ AtTop /\ ~exc
    /\ hooks[c].mounted
    /\ hooks' = ctxUseSelector(hooks, c, sel, eq, state[HookStore])
    /\ HistL("render", HookStore, c)
    /\ hits' = NoHits /\ exit' = NoExit /\ sched' = NoSched
    /\ last' = NoLast
    /\ UNCHANGED <<owed, state, initial, listeners, depth, queue, stack, exc, made>>

\* The component unmounts: the runtime calls the function subscribe returned.
ctxUnmount(c) ==
    /\ AtTop /\ ~exc
    /\ hooks[c].mounted
    /\ hooks' = [hooks EXCEPT ![c] = [NoHook EXCEPT !.value = hooks[c].value]]
    /\ listeners' = [listeners EXCEPT ![HookStore] = SetDelete(@, c)]
    /\ HistL("unsubscribe", HookStore, c)
    /\ hits' = NoHits /\ exit' = NoExit /\ sched' = NoSched
    /\ last' = NoLast
    /\ UNCHANGED <<owed, state, initial, depth, queue, stack, exc, made>>

\* ------------------------------------------- asynchronous controller flows
\* A synchronous segment of flow f is running: the runtime runs a segment
\* only when nothing else is, and runs it to its end.
FlowFrame(f) == [NoFrame EXCEPT !.kind = "flow", !.l = f]

\* The transition function a segment calls: todo.add(tmp) before the await,
\* todo.remove(tmp.id) after it, as what they add to the number of todos.
FlowArg(f) == IF react.flow[f].pc = "add" THEN 1 ELSE -1

\* The running segment has made its write.
FlowWritten == sched[HookStore] >= 1

\* addAndPersist(text) is called, or the promise it awaits is settled (here:
\* rejected) and the runtime resumes it.
FlowStep(f) ==
    /\ CanCall({"none"})
    /\ react.flow[f].pc \in {"idle", "await"}
    /\ react' = [react EXCEPT !.flow[f].pc = IF @ = "idle" THEN "add" ELSE "remove"]
    /\ stack' = Push(FlowFrame(f))
    /\ Hist("flow", "-", -1)
    /\ hits' = NoHits /\ exit' = NoExit /\ sched' = NoSched
    /\ last' = NoLast
    /\ UNCHANGED <<owed, hooks, state, initial, listeners, depth, queue, exc, made>>

\* Fault: the segment writes a plain value computed from the state the flow
\* saw before the await.
FlowWriteSeen ==
    /\ Top.kind = "flow" /\ ~FlowWritten
    /\ setState({"flow"}, HookStore,
                [fn |-> FALSE,
                 v |-> pure(IF react.flow[Top.l].pc = "add"
                            THEN state[HookStore] ELSE react.flow[Top.l].seen,
                            FlowArg(Top.l))])

\* The write of the running segment, a bound action of the slice:
\* store.setState((prev) => pure(prev, ...args))
FlowWrite ==
    /\ Top.kind = "flow" /\ ~FlowWritten
    /\ setState({"flow"}, HookStore, [fn |-> TRUE, v |-> pure(0, FlowArg(Top.l))])

\* The segment reaches its await, or the end of the function.
FlowAwait ==
    /\ Top.kind = "flow" /\ ~exc /\ FlowWritten
    /\ react' = [react EXCEPT !.flow[Top.l] =
                    [pc |-> IF @.pc = "add" THEN "await" ELSE "idle",
                     seen |-> IF @.pc = "add" THEN state[HookStore] ELSE -1]]
    /\ stack' = Pop
    /\ Refuel
    /\ last' = NoLast
    /\ UNCHANGED <<owed, hooks, state, initial, listeners, depth, queue, exc, made, op,
                   hits, exit, sched>>

\* ------------------------------------------- createContextSync (Provider)
\* The values of the prop `initial` of a Provider.
Props == {Null} \cup 0..1

\* Top-level history of a call made by the runtime or the application that
\* is no call of the store.
HistP(kind, c, thrown) ==
    /\ op' = [NoOp EXCEPT !.kind = kind, !.s = HookStore, !.l = c,
                          !.prev = state[HookStore], !.thrown = thrown]
    /\ fuel' = MaxFuel
    /\ hits' = NoHits /\ exit' = NoExit /\ sched' = NoSched
    /\ last' = NoLast

\* Fault: the store is made in every render of the Provider.
ProviderEach(prop) ==
    /\ CanCall({"none"})
    /\ state' = [state EXCEPT ![HookStore] = prop]
    /\ initial' = [initial EXCEPT ![HookStore] = prop]
    /\ made' = IF react.provider.mounted THEN made
               ELSE [made EXCEPT ![HookStore] = prop]
    /\ listeners' = [listeners EXCEPT ![HookStore] = <<>>]
    /\ react' = [react EXCEPT !.provider =
                    [mounted |-> TRUE,
                     hyd |-> IF @.hyd = Null THEN prop ELSE @.hyd,
                     stores |-> Count(@.stores)]]
    /\ HistP("Provider", "-", FALSE)
    /\ UNCHANGED <<owed, hooks, depth, queue, stack, exc>>

\* A render of <Provider initial={prop}>: useState(() => makeStore(initial))
\* makes the store in the first render only (`made` and `initial` keep what it
\* was made with); if (hydRef.current === null) hydRef.current = initial.
Provider(prop) ==
    /\ CanCall({"none"})
    /\ IF react.provider.mounted
       THEN UNCHANGED <<state, initial, made, listeners>>
       ELSE /\ state' = [state EXCEPT ![HookStore] = prop]
            /\ initial' = [initial EXCEPT ![HookStore] = prop]
            /\ made' = [made EXCEPT ![HookStore] = prop]
            /\ listeners' = [listeners EXCEPT ![HookStore] = <<>>]
    /\ react' = [react EXCEPT !.provider =
                    [mounted |-> TRUE,
                     hyd |-> IF @.hyd = Null THEN prop ELSE @.hyd,
                     stores |-> IF @.mounted THEN @.stores ELSE Count(@.stores)]]
    /\ HistP("Provider", "-", FALSE)
    /\ UNCHANGED <<owed, hooks, depth, queue, stack, exc>>

\* getServerSnapshot of the context value: () => hydRef.current
ctxGetServerSnapshot == react.provider.hyd

\* Fault: no check, the hooks go on without a Provider.
useStoreAny == TRUE

\* const ctx = React.useContext(Ctx); if (!ctx) throw ...: whether the check
\* passes, that is, whether the component is inside a rendered Provider.
useStore == react.provider.mounted

\* throw new Error("react-context-sync: hooks must be used within <Provider>")
\* from hook `kind` called in a render of component c: the render is abandoned.
NotProvisioned(kind, c) ==
    /\ CanCall({"none"})
    /\ HistP(kind, c, TRUE)
    /\ UNCHANGED <<owed, react, hooks, state, initial, made, listeners, depth, queue,
                   stack, exc>>

\* A render of component c calling the scoped useSelector(selector, isEqual).
\* The components rendered select from a state that is not null.
useSelector(c, sel, eq) ==
    IF useStore
    THEN /\ state[HookStore] # Null
         /\ react.slice[c].id = 0
         /\ IF hooks[c].mounted THEN ctxRender(c, sel, eq)
                                ELSE ctxMount(c, sel, eq)
         /\ react' = react
    ELSE NotProvisioned("useSelector", c)

\* A render of component c calling the hook createSlice(select, fns)
\* returned: useStore(), useSelector(select), and the memo of the actions.
ctxUseSlice(c, select) ==
    IF useStore
    THEN /\ state[HookStore] # Null
         /\ IF hooks[c].mounted
            THEN /\ react.slice[c].id # 0 /\ hooks[c].sel = select
                 /\ ctxRender(c, select, "is")
            ELSE ctxMount(c, select, "is")
         /\ react' = [react EXCEPT !.slice[c] =
                         useMemo(@, HookStore, NewObj(react))]
    ELSE NotProvisioned("useSlice", c)

\* A render of component c calling the scoped useActions(factory, deps), or
\* (kind) the hook bindActions(factory) returned, which calls it.
ctxUseActions(kind, c, deps) ==
    IF useStore
    THEN /\ CanCall({"none"})
         /\ react' = [react EXCEPT !.ctrl[c] = useMemo(@, deps, NewObj(react))]
         /\ HistP(kind, c, FALSE)
         /\ UNCHANGED <<owed, hooks, state, initial, made, listeners, depth, queue,
                        stack, exc>>
    ELSE NotProvisioned(kind, c)

\* A component with a scoped selector or slice hook unmounts.
ctxUnmountHook(c) ==
    /\ ctxUnmount(c)
    /\ react' = [react EXCEPT !.slice[c] = NoMemo]

\* The keys of the store access a controller factory is given:
\* { get: getState, set: setState, replace }
StoreAccess == {"get", "set", "replace"}

\* A write through a hook's handle: an action of a slice some component has
\* mounted, or api.set / api.replace of a controller some component has built.
SliceBuilt == \E c \in Listeners : react.slice[c].id # 0
ControllerBuilt == \E c \in Listeners : react.ctrl[c].id # 0

\* actions[key](...args) of a scoped slice
ctxActions(k) ==
    /\ SliceBuilt
    /\ ctxSetState([fn |-> TRUE, v |-> pure(0, k)])
    /\ react' = react

\* api.set(u) in a controller action
apiSet(u) ==
    /\ ControllerBuilt /\ "set" \in StoreAccess
    /\ ctxSetState(u)
    /\ react' = react

\* api.replace(next) in a controller action
apiReplace(next) ==
    /\ ControllerBuilt /\ "replace" \in StoreAccess
    /\ ctxReplace(next)
    /\ react' = react

\* api.reset() in a controller action, called from the top level: the store
\* access has no such key, so the call is one of undefined and throws a
\* TypeError; the context store has no reset either.
apiReset ==
    /\ ControllerBuilt /\ "reset" \notin StoreAccess
    /\ CanCall({"none"})
    /\ op' = [NoOp EXCEPT !.kind = "reset", !.s = HookStore,
                          !.prev = state[HookStore],
                          !.next = initial[HookStore], !.thrown = TRUE]
    /\ fuel' = MaxFuel
    /\ hits' = NoHits /\ exit' = NoExit /\ sched' = NoSched
    /\ last' = NoLast
    /\ UNCHANGED <<owed, react, hooks, state, initial, made, listeners, depth, queue,
                   stack, exc>>

\* ---------------------------------------------------------- specifications
\* new TinyStore(initial) for each store; the module-level `batching` is idle.
\* A state is a reference, compared by identity only, so the reference each
\* constructor receives is named 0.
Constructed ==
    /\ made = [s \in Stores |-> 0]
    /\ initial = made
    /\ state = made
    /\ listeners = [s \in Stores |-> <<>>]
    /\ depth = 0
    /\ queue = <<>>
    /\ stack = <<>>
    /\ exc = FALSE
    /\ fuel = MaxFuel
    /\ op = NoOp
    /\ hits = NoHits
    /\ exit = NoExit
    /\ sched = NoSched
    /\ last = NoLast
    /\ hooks = [c \in Listeners |-> NoHook]
    /\ react = NoReact

Init == Constructed /\ owed = NoOwed

\* The same stores, with the history of owed notifications kept.
InitL == Constructed /\ owed = [NoOwed EXCEPT !.on = TRUE]

\* An updater that returns a new reference.
Fresh == [fn |-> TRUE, v |-> 1]

Calls ==
    \/ \E s \in Stores, u \in SetStateArgs : setState(App, s, u)
    \/ \E s \in Stores, v \in Values : replace(App, s, v)
    \/ \E s \in Stores : reset(App, s)
    \/ \E s \in Stores, l \in Listeners : subscribe(App, s, l) /\ UNCHANGED <<hooks, react>>
    \/ \E s \in Stores, l \in Listeners : unsubscribe(App, s, l)
          /\ UNCHANGED <<hooks, react>>
    \/ run(App)
    \/ Catch

Steps ==
    \/ RunReturn
    \/ RunThrow
    \/ FlushStep
    \/ FlushReturn
    \/ NotifyStep
    \/ NotifyReturn
    \/ ListenerReturn
    \/ Uncaught

\* Listeners only read (the subscribers a UI runtime registers).
Next == Calls \/ Steps

Spec == Init /\ [][Next]_vars

\* What a listener may do besides reading: write, unsubscribe, batch, throw.
ListenerCalls ==
    \/ \E s \in Stores : setState(Reentrant, s, Fresh)
    \/ \E s \in Stores, l \in Listeners : unsubscribe(Reentrant, s, l)
          /\ UNCHANGED <<hooks, react>>
    \/ run(Reentrant)
    \/ ListenerThrow

\* The top-level calls of the reentrant specification: replace and reset are
\* left to Spec, being the same gate and the same enqueueNotify as setState.
CallsR ==
    \/ \E s \in Stores, u \in SetStateArgs : setState(App, s, u)
    \/ \E s \in Stores, l \in Listeners : subscribe(App, s, l) /\ UNCHANGED <<hooks, react>>
    \/ \E s \in Stores, l \in Listeners : unsubscribe(App, s, l)
          /\ UNCHANGED <<hooks, react>>
    \/ run(App)
    \/ Catch

NextR == CallsR \/ Steps \/ ListenerCalls

SpecR == Init /\ [][NextR]_vars

\* Listeners that remove listeners, themselves or others, and do nothing else.
ListenerRemoves ==
    \E s \in Stores, l \in Listeners : unsubscribe(Reentrant, s, l)
       /\ UNCHANGED <<hooks, react>>

NextU == Calls \/ Steps \/ ListenerRemoves

SpecU == Init /\ [][NextU]_vars

\* The arguments a consumer passes to the hook: the first any selector with
\* any equality, the second s => s.b with the default equality.
HookArgs(c) ==
    IF c = "L1" THEN Selectors \X Equalities ELSE {<<"b", "is">>}

\* The writes of the application to the hooks' store, alone or in a batch,
\* and what the UI runtime does with the components.
CallsH ==
    \/ \E v \in Values : setState(App, HookStore, [fn |-> FALSE, v |-> v])
    \/ run({"none"})
    \/ \E c \in Listeners : \E a \in HookArgs(c) : Mount(c, a[1], a[2]) /\ UNCHANGED react
    \/ \E c \in Listeners : \E a \in HookArgs(c) : Render(c, a[1], a[2]) /\ UNCHANGED react
    \/ \E c \in Listeners : Unmount(c) /\ UNCHANGED react

StepsH ==
    \/ RunReturn
    \/ FlushStep
    \/ FlushReturn
    \/ NotifyStep
    \/ NotifyReturn
    \/ HookListener

\* Components that read a store through useStoreSelector, the only listeners.
NextH == CallsH \/ StepsH

SpecH == Init /\ [][NextH]_vars

\* Components that read the state of a createContextSync Provider through its
\* useSelector, and the writes of the application to the Provider's store.
NextC ==
    \/ \E u \in SetStateArgs : ctxSetState(u) /\ UNCHANGED react
    \/ \E v \in Values : ctxReplace(v) /\ UNCHANGED react
    \/ \E c \in Listeners : \E a \in HookArgs(c) : ctxMount(c, a[1], a[2])
          /\ UNCHANGED react
    \/ \E c \in Listeners : \E a \in HookArgs(c) : ctxRender(c, a[1], a[2])
          /\ UNCHANGED react
    \/ \E c \in Listeners : ctxUnmount(c) /\ UNCHANGED react

SpecC == Init /\ [][NextC]_vars

\* Components that call the useSlice() hook createStoreSlice returned for a
\* store, and the application calling the bound actions and setState.
CallsS ==
    \/ \E k \in SliceArgs : actions(App, k)
    \/ \E v \in Values : setState(App, HookStore, [fn |-> FALSE, v |-> v])
    \/ \E v \in Values : replace(App, HookStore, v)
    \/ reset(App, HookStore)
    \/ run({"none"})
    \/ \E c \in Listeners : \E select \in Selects(c) : useSliceMount(c, select)
    \/ \E c \in Listeners : useSlice(c)
    \/ \E c \in Listeners : useSliceUnmount(c)
    \/ \E c \in Controllers : \E deps \in Deps : useStoreActions(c, deps)
    \/ \E c \in Controllers : useStoreActionsUnmount(c)

NextS == CallsS \/ StepsH

SpecS == Init /\ [][NextS]_vars

\* batch(fn) called by the application of a rendered Provider.
ctxBatch == useStore /\ run({"none"})

\* The arguments the scoped hooks of the components are called with.
ProviderArgs == {<<"a", "is">>, <<"obj", "eqv">>}

\* One context of createContextSync(): the runtime renders the Provider, a
\* component with a selector hook and a controller hook ("L1") and one with a
\* slice hook ("L2"); the application writes through the slice's actions and
\* the controller's api, at the top level and in work functions of batch().
CallsP ==
    \/ \E prop \in Props : Provider(prop)
    \/ \E a \in ProviderArgs : useSelector("L1", a[1], a[2])
    \/ ctxUseSlice("L2", "b")
    \/ ctxUseActions("useActions", "L1", "d0")
    \/ ctxUseActions("useBoundActions", "L1", "d0")
    \/ \E c \in Listeners : ctxUnmountHook(c)
    \/ \E k \in SliceArgs : ctxActions(k)
    \/ \E u \in SetStateArgs : apiSet(u)
    \/ \E v \in Values : apiReplace(v)
    \/ apiReset
    \/ ctxBatch

NextP == CallsP \/ RunReturn

SpecP == Init /\ [][NextP]_vars

\* Two calls of an asynchronous controller action that interleave at their
\* awaits, on a store with slice hooks mounted.
CallsF ==
    \/ \E f \in Flows : FlowStep(f)
    \/ FlowWrite
    \/ FlowAwait
    \/ \E c \in Listeners : \E select \in Selects(c) : useSliceMount(c, select)
    \/ \E c \in Listeners : useSlice(c)
    \/ \E c \in Listeners : useSliceUnmount(c)

NextF == CallsF \/ NotifyStep \/ NotifyReturn \/ HookListener

SpecF == Init /\ [][NextF]_vars

\* Listeners that write, unsubscribe and batch, and never throw; the history
\* of owed notifications is kept.
ListenerWrites ==
    \/ \E s \in Stores : setState(Reentrant, s, Fresh)
    \/ \E s \in Stores, l \in Listeners : unsubscribe(Reentrant, s, l)
          /\ UNCHANGED <<hooks, react>>
    \/ run(Reentrant)

\* No listener lets an exception out: the exception of a batch a listener
\* opened (RunThrow, or FlushReturn with the exception pending) would leave
\* through the listener, so only batches under no listener end that way.
NoListenerThrows ==
    \A i \in 1..Len(stack) : stack[i].kind = "listener" /\ exc' => Len(stack') >= i

StepsL ==
    \/ RunReturn
    \/ RunThrow /\ NoListenerThrows
    \/ FlushStep
    \/ FlushReturn /\ NoListenerThrows
    \/ NotifyStep
    \/ NotifyReturn
    \/ ListenerReturn
    \/ Uncaught

NextL == CallsR \/ StepsL \/ ListenerWrites

SpecL == InitL /\ [][NextL]_vars

\* ------------------------------------------------------------- exceptions
\* Listeners that only read and may throw, and updaters that may throw.
Throws ==
    \/ \E s \in Stores : setStateThrows(App, s)
    \/ ListenerThrow

NextX == Calls \/ Steps \/ Throws

SpecX == Init /\ [][NextX]_vars

\* ---------------------------------------------------------------- properties
\* Control is with the top-level caller and no exception is on its way there.
Quiet == AtTop /\ ~exc

\* Store s changed in the current top-level call.
Written(s) == sched[s] >= 1

\* In the current top-level call, each listener now subscribed to s has been
\* invoked exactly once, and no other listener of s has been.
InvokedOnce(s) ==
    \A l \in Listeners : hits[s][l] = IF l \in Range(listeners[s]) THEN 1 ELSE 0

\* No listener of s has been invoked in the current top-level call.
NotInvoked(s) == \A l \in Listeners : hits[s][l] = 0

\* An activation of kind k lies above activation i.
Above(i, k) == \E j \in (i + 1)..Len(stack) : stack[j].kind = k

\* C1. Batch collapsing: while the work function of a batch runs no listener
\* is invoked, however many writes have changed a store; when the outermost
\* batch has completed, each listener subscribed to a changed store has been
\* invoked exactly once.
BatchCollapsing ==
    /\ \A i \in 1..Len(stack) :
          stack[i].kind = "batch" =>
              ~Above(i, "flush") /\ ~Above(i, "notify") /\ ~Above(i, "listener")
    /\ depth > 0 => hits = NoHits
    /\ (AtTop /\ op.kind = "batch") =>
          \A s \in Stores : Written(s) => InvokedOnce(s)

\* Two incrementing writes to A in one batch: its two listeners ran once each
\* and A holds the value of the second write.
BatchCollapsingSeen ==
    /\ Quiet /\ op.kind = "batch" /\ ~op.thrown
    /\ sched["A"] = 2 /\ sched["B"] = 0
    /\ state["A"] = initial["A"] + 2
    /\ hits["A"]["L1"] = 1 /\ hits["A"]["L2"] = 1

\* C2. Reference-equality gating: when setState called outside a batch has
\* returned, either the value it computed was the state (Object.is), and then
\* no listener was invoked and the state is what it was, or it was not, and
\* then the state is that value and each subscribed listener of the store was
\* invoked exactly once before the return, and no listener of another store.
ReferenceEqualityGating ==
    (Quiet /\ op.kind = "setState") =>
        IF op.next = op.prev
        THEN /\ state[op.s] = op.prev
             /\ hits = NoHits
        ELSE /\ state[op.s] = op.next
             /\ InvokedOnce(op.s)
             /\ \A s \in Stores \ {op.s} : NotInvoked(s)

\* A setState that changed A has returned with both listeners of A invoked.
ReferenceEqualityGatingSeen ==
    /\ Quiet /\ op.kind = "setState" /\ op.s = "A"
    /\ op.next # op.prev
    /\ Len(listeners["A"]) = 2
    /\ hits["A"]["L1"] = 1 /\ hits["A"]["L2"] = 1

\* C3. Read-your-write: when setState has just returned, getState of that
\* store is the value setState computed, inside a batch with the notification
\* still queued as well as outside one.
ReadYourWrite ==
    last.o \in {"setState", "update"} => getState(last.s) = last.v

\* setState has returned inside a batch: the notifier of A is queued, no
\* listener has run, and the new value is readable.
ReadYourWriteSeen ==
    /\ last.o = "update" /\ last.s = "A" /\ last.v # initial["A"]
    /\ depth > 0 /\ "A" \in Range(queue)
    /\ Len(listeners["A"]) > 0 /\ hits = NoHits

\* C4. Nested batch transparency: a batch that ends inside another one flushes
\* nothing. Whatever the nesting, while any work function runs the queue holds
\* exactly the stores changed so far and no listener has been invoked, a flush
\* takes place only at depth 0, and the outermost exit invokes the listeners of
\* exactly the changed stores, once each: what one flat batch does.
NestedBatchTransparency ==
    /\ depth > 0 =>
          /\ Range(queue) = {s \in Stores : Written(s)}
          /\ hits = NoHits
          /\ \A i \in 1..Len(stack) : stack[i].kind = "batch"
    /\ (AtTop /\ op.kind = "batch") =>
          \A s \in Stores : IF Written(s) THEN InvokedOnce(s) ELSE NotInvoked(s)

\* A batch in which a nested batch changed A, and which changed B after the
\* nested batch had ended, has completed: one pass, for both stores.
NestedBatchTransparencySeen ==
    /\ Quiet /\ op.kind = "batch" /\ op.inner /\ ~op.thrown
    /\ Written("A") /\ Written("B")
    /\ hits["A"]["L1"] = 1 /\ hits["B"]["L1"] = 1

\* C5. Cross-store batching: in a batch that has changed every store, no
\* listener runs before the outermost exit; a listener that runs reads, for
\* every store, the value the store had at that exit; and at the end the
\* listeners of each store have been invoked exactly once.
CrossStoreBatching ==
    (op.kind = "batch" /\ \A s \in Stores : Written(s)) =>
        /\ depth > 0 => hits = NoHits
        /\ Top.kind = "listener" => \A s \in Stores : getState(s) = exit[s]
        /\ AtTop => \A s \in Stores : InvokedOnce(s)

\* The flush of a batch that changed A and then B: a listener of A runs, the
\* notifier of B has not been called yet, and B already holds its new value.
CrossStoreBatchingSeen ==
    /\ op.kind = "batch" /\ Len(stack) = 3
    /\ stack[1].kind = "flush" /\ stack[1].run = <<"A", "B">>
    /\ Top.kind = "listener" /\ Top.s = "A"
    /\ NotInvoked("B") /\ Len(listeners["B"]) > 0
    /\ state["A"] # initial["A"] /\ state["B"] # initial["B"]

\* The number of work functions running.
Running == Cardinality({i \in 1..Len(stack) : stack[i].kind = "batch"})

\* C6. Batch exception safety: a work function that throws still takes its
\* level off the depth; when the exception reaches the caller of the outermost
\* batch, the depth is 0, the queue is empty and the listeners of every changed
\* store have been invoked; an exception that arrives in an outer work function
\* from a nested batch has left every notification in the queue.
BatchExceptionSafety ==
    /\ depth = Running
    /\ (AtTop /\ op.kind = "batch" /\ (exc \/ op.thrown)) =>
          /\ queue = <<>>
          /\ \A s \in Stores : Written(s) => InvokedOnce(s)
    /\ (exc /\ Top.kind = "batch") =>
          /\ Range(queue) = {s \in Stores : Written(s)}
          /\ hits = NoHits

\* The exception of a nested batch that changed A reaches the top-level caller:
\* the listener of A has been invoked.
BatchExceptionSafetySeen ==
    /\ AtTop /\ exc /\ op.kind = "batch" /\ op.inner
    /\ Written("A") /\ hits["A"]["L1"] = 1

\* C7. Whenever the batch depth is 0 the shared queue is empty.
EmptyQueueWhenIdle == depth = 0 => queue = <<>>

\* A batch with a nested batch in it has changed A and thrown, and the depth
\* is 0 again.
EmptyQueueWhenIdleSeen ==
    /\ depth = 0 /\ AtTop
    /\ op.kind = "batch" /\ op.thrown /\ op.inner
    /\ Written("A")

\* C8. A store's notifier is called at most once per outermost batch: the pass
\* a flush runs holds no store twice, and when the batch has completed no
\* listener has been invoked more than once.
OncePerBatch ==
    /\ \A i \in 1..Len(stack) :
          stack[i].kind = "flush" =>
              \A a, b \in 1..Len(stack[i].run) :
                  a # b => stack[i].run[a] # stack[i].run[b]
    /\ (AtTop /\ op.kind = "batch") =>
          \A s \in Stores, l \in Listeners : hits[s][l] <= 1

\* The notifier of A was enqueued more than once in a batch that has completed,
\* and the listener of A ran once.
OncePerBatchSeen ==
    /\ Quiet /\ op.kind = "batch"
    /\ sched["A"] = 2
    /\ listeners["A"] = <<"L2">> /\ hits["A"]["L2"] = 1

\* The queue is empty during a flush, unless a listener has opened a batch.
FlushCaptured ==
    \A i \in 1..Len(stack) :
        (stack[i].kind = "flush" /\ ~Above(i, "batch")) => queue = <<>>

\* A listener's write at depth 0 calls the notifier at once, on top of the
\* activations there are, which it leaves as they are, and queues nothing.
ListenerWriteNotifies ==
    (Top.kind = "listener" /\ depth = 0 /\ state' # state) =>
        /\ Len(stack') = Len(stack) + 1
        /\ SubSeq(stack', 1, Len(stack)) = stack
        /\ stack'[Len(stack')].kind = "notify"
        /\ stack'[Len(stack')].o # "none"
        /\ state'[stack'[Len(stack')].s] # state[stack'[Len(stack')].s]
        /\ queue' = <<>>

\* C9. Flush semantics: the pending set is captured and cleared before the
\* first notifier is called, and a write a listener makes during the flush,
\* outside any new batch, notifies at once and synchronously: it is not added
\* to the pass being flushed, nor to the queue.
FlushSemantics == []FlushCaptured /\ [][ListenerWriteNotifies]_vars

\* During the flush of a batch, a listener has written and a listener of the
\* written store runs, before the flush goes on.
FlushSemanticsSeen ==
    /\ Len(stack) = 5 /\ depth = 0 /\ queue = <<>>
    /\ stack[1].kind = "flush" /\ stack[2].kind = "notify"
    /\ stack[3].kind = "listener"
    /\ stack[4].kind = "notify" /\ stack[4].o # "none"
    /\ stack[5].kind = "listener"

\* C10. getInitialState returns the value the store was constructed with,
\* whatever writes have been made.
InitialStateKept == \A s \in Stores : getInitialState(s) = made[s]

\* A was written and then reset, B was written and holds another value than at
\* construction.
InitialStateKeptSeen ==
    /\ Quiet /\ op.kind = "reset" /\ op.s = "A"
    /\ op.prev # made["A"] /\ state["A"] = made["A"]
    /\ state["B"] # made["B"]

\* C11. Reset restores initial: when reset has just returned, at the top level
\* or inside a batch, getState of that store is the reference getInitialState
\* returns, whatever was written before.
ResetRestoresInitial ==
    last.o = "reset" => ObjectIs(getState(last.s), getInitialState(last.s))

\* A was written twice, to two other values than the initial one, and then
\* reset, all in one batch; reset has just returned.
ResetRestoresInitialSeen ==
    /\ last.o = "reset" /\ last.s = "A"
    /\ depth > 0 /\ sched["A"] = 2 /\ fuel = 0
    /\ state["A"] = made["A"]

\* This step is a call of the write o on store s that computed v: it has
\* returned (last), or it has entered the notifier of s.
Called(o, s, v) ==
    \/ /\ stack' = stack
       /\ last' = [o |-> o, s |-> s, v |-> v]
    \/ /\ Len(stack') = Len(stack) + 1
       /\ stack'[Len(stack')].kind = "notify"
       /\ stack'[Len(stack')].o = o
       /\ stack'[Len(stack')].s = s
       /\ stack'[Len(stack')].v = v

\* What a gated write of v to store s does in one step: nothing when v is the
\* state; otherwise it assigns, and inside a batch adds the store to the queue
\* and returns, outside one enters the notifier with the listeners of s as
\* they are now.
Effect(s, v) ==
    IF v = state[s]
    THEN state' = state /\ queue' = queue /\ stack' = stack
    ELSE /\ state' = [state EXCEPT ![s] = v]
         /\ IF depth > 0
            THEN /\ stack' = stack
                 /\ Range(queue') = Range(queue) \cup {s}
                 /\ Len(queue') = Cardinality(Range(queue'))
            ELSE /\ queue' = queue
                 /\ SubSeq(stack', 1, Len(stack)) = stack
                 /\ stack'[Len(stack')].run = listeners[s]
                 /\ stack'[Len(stack')].i = 1

\* A top-level call of the write kind k has returned: no listener ran if the
\* value was the state, each listener of the store ran once if it was not.
Outcome(k) ==
    (Quiet /\ op.kind = k) =>
        /\ ~op.thrown
        /\ state[op.s] = op.next
        /\ IF op.next = op.prev THEN hits = NoHits ELSE InvokedOnce(op.s)
        /\ \A s \in Stores \ {op.s} : NotInvoked(s)

\* A call of replace(v) and a call of setState(v), v a plain value, take the
\* same step from the same state.
ReplaceStep ==
    \A s \in Stores, v \in Values :
        (Called("replace", s, v) \/ Called("setState", s, v)) => Effect(s, v)

\* C12. replace(v) is setState(v) for a plain value v: from any state, inside
\* a batch or outside, both take the step Effect(s, v), which depends on the
\* store, the value and the state only, and at the top level both end with the
\* same state and the same listener invocations; replace applies nothing to
\* its argument.
ReplaceIsSetState ==
    /\ [](Outcome("replace") /\ Outcome("setState"))
    /\ [][ReplaceStep]_vars

\* replace has changed A inside a batch that had not written A before: A is
\* queued, holds the value, and no listener has run.
ReplaceIsSetStateSeen ==
    /\ last.o = "replace" /\ last.s = "A" /\ last.v # made["A"]
    /\ depth > 0 /\ queue = <<"B", "A">> /\ sched["A"] = 1
    /\ state["A"] = last.v /\ hits = NoHits

\* A call of reset takes the step of a gated write of the initial state.
ResetStep ==
    \A s \in Stores, v \in Values :
        Called("reset", s, v) => ObjectIs(v, getInitialState(s)) /\ Effect(s, v)

\* C13. reset goes through the gate and the scheduling of a write: it invokes
\* no listener when the state is the initial state already; otherwise it
\* notifies at once outside a batch, and inside one its notifier joins the
\* queue, once, with those of the other writes, no listener running before the
\* batch ends.
ResetIsGated ==
    /\ [](Outcome("reset") /\ (last.o = "reset" /\ depth > 0 => hits = NoHits))
    /\ [][ResetStep]_vars

\* Inside a batch A was written and then reset: the notifier of A is in the
\* queue once for the two writes, and its two listeners have not run.
ResetIsGatedSeen ==
    /\ last.o = "reset" /\ last.s = "A"
    /\ depth > 0 /\ queue = <<"A">> /\ sched["A"] = 2
    /\ Len(listeners["A"]) = 2 /\ hits = NoHits

\* C14. Safe removal during notification: when listeners unsubscribe
\* themselves or one another while a store notifies, nothing is thrown, no
\* listener is invoked twice, and when the pass is over every listener still
\* subscribed to the store, that is every listener of the pass but the removed
\* ones, has been invoked exactly once.
SafeRemoval ==
    /\ op.kind # "batch" => ~exc /\ ~op.thrown
    /\ \A s \in Stores, l \in Listeners : hits[s][l] <= 1
    /\ (Top.kind = "notify" /\ Top.i > Len(Top.run)) =>
          \A l \in Range(listeners[Top.s]) : hits[Top.s][l] = 1
    /\ AtTop =>
          \A s \in Stores : Written(s) =>
              \A l \in Range(listeners[s]) : hits[s][l] = 1

\* A setState has notified both listeners of A although one of them was
\* removed while the pass was under way.
SafeRemovalSeen ==
    /\ Quiet /\ op.kind = "setState" /\ op.s = "A" /\ ~op.thrown
    /\ hits["A"]["L1"] = 1 /\ hits["A"]["L2"] = 1
    /\ listeners["A"] = <<"L2">>

\* A top-level call of the function subscribe(l) returned, on store op'.s:
\* nothing is thrown, l is not subscribed afterwards, and every other listener
\* of every store stays where it is.
UnsubscribeStep ==
    (AtTop /\ ~exc /\ stack' = <<>> /\ op'.kind = "unsubscribe") =>
        /\ ~exc'
        /\ op'.l \notin Range(listeners'[op'.s])
        /\ \A s \in Stores \ {op'.s} : listeners'[s] = listeners[s]
        /\ \A k \in 1..Len(listeners'[op'.s]) :
              listeners'[op'.s][k] =
                  listeners[op'.s][IF /\ op'.had
                                      /\ \E j \in 1..k : listeners[op'.s][j] = op'.l
                                   THEN k + 1 ELSE k]
        /\ Len(listeners'[op'.s]) = Len(listeners[op'.s]) - (IF op'.had THEN 1 ELSE 0)
        /\ ~op'.had => listeners' = listeners

\* C15. The function subscribe returns is idempotent: a call removes the
\* listener when it is subscribed; a call when it is not (any call after the
\* first: a Set keeps no trace of a removed member) throws nothing, leaves
\* the listener sets as they are and removes no other listener.
UnsubscribeIdempotent ==
    /\ [](op.kind = "unsubscribe" =>
             ~exc /\ ~op.thrown /\ op.l \notin Range(listeners[op.s]))
    /\ [][UnsubscribeStep]_vars

\* The function for L1 on A was called when L1 was not subscribed, L2 being
\* subscribed: L2 still is.
UnsubscribeIdempotentSeen ==
    /\ Quiet /\ op.kind = "unsubscribe" /\ op.s = "A" /\ op.l = "L1"
    /\ ~op.had /\ ~op.thrown
    /\ listeners["A"] = <<"L2">>

\* No step changes what is kept of a consumer that is and stays unmounted.
TeardownStep ==
    \A c \in Listeners :
        (~hooks[c].mounted /\ ~hooks'[c].mounted) => hooks'[c] = hooks[c]

\* C16. Updates after teardown: once a consumer has unmounted, its listener
\* is not subscribed and is not in a pass under way, so a later write does not
\* invoke it and no step updates what is kept of the consumer; the write
\* throws nothing, and when it returns the store holds the value written.
UpdatesAfterTeardown ==
    /\ [](\A c \in Listeners :
            ~hooks[c].mounted =>
                /\ c \notin Range(listeners[HookStore])
                /\ hits[HookStore][c] = 0
                /\ \A i \in 1..Len(stack) :
                      stack[i].kind = "notify" => c \notin Range(stack[i].run))
    /\ [](~exc /\ ~op.thrown)
    /\ [](last.o = "setState" => getState(last.s) = last.v)
    /\ [][TeardownStep]_vars

\* The first consumer rendered field a and unmounted; a write then changed
\* field a: the second consumer was polled, the first was not, and what the
\* first rendered is the old value of field a.
UpdatesAfterTeardownSeen ==
    /\ Quiet /\ op.kind = "setState" /\ op.s = HookStore
    /\ ~hooks["L1"].mounted /\ hooks["L2"].mounted
    /\ hooks["L1"].value # NoInst
    /\ hooks["L1"].value.val = FieldA(op.prev)
    /\ FieldA(op.next) # FieldA(op.prev)
    /\ state[HookStore] = op.next
    /\ hits[HookStore]["L1"] = 0 /\ hits[HookStore]["L2"] = 1

\* This step is a poll of consumer c's hook with the selector and the equality
\* of its last render: its listener returns, or its component renders again
\* with the same arguments.
Polled(c) ==
    \/ /\ Top.kind = "listener" /\ Top.l = c /\ ~exc
       /\ stack' = Pop
    \/ /\ AtTop /\ op'.kind = "render" /\ op'.l = c
       /\ hooks'[c].sel = hooks[c].sel /\ hooks'[c].eq = hooks[c].eq

\* What the selector of consumer c's hook selects from the state now.
Selected(c) ==
    IF hooks[c].sel = "b" THEN FieldB(getState(HookStore))
                          ELSE FieldA(getState(HookStore))

\* The equality of consumer c's hook finds the value selected now equal to the
\* baseline: always, or by content, or by Object.is, which holds of no object
\* built by this call.
EqualToBaseline(c) ==
    \/ hooks[c].eq = "always"
    \/ /\ hooks[c].eq = "eqv" /\ hooks[c].last.val = Selected(c)
       /\ hooks[c].last.id = 0 <=> hooks[c].sel # "obj"
    \/ /\ hooks[c].eq = "is" /\ hooks[c].sel # "obj"
       /\ hooks[c].last.id = 0 /\ hooks[c].last.val = Selected(c)

\* A poll returns the baseline instance and leaves the baseline alone when the
\* value selected is equal to it; otherwise the value selected, a new instance
\* made by the current selector, is the baseline and is returned.
PollStep ==
    \A c \in Listeners :
        Polled(c) =>
            IF EqualToBaseline(c)
            THEN /\ hooks'[c].ret = hooks[c].last
                 /\ hooks'[c].last = hooks[c].last
            ELSE /\ hooks'[c].last.val = Selected(c)
                 /\ hooks'[c].last.by = hooks[c].sel
                 /\ hooks'[c].last.id = IF hooks[c].sel = "obj" THEN NewId(hooks) ELSE 0
                 /\ hooks'[c].ret = hooks'[c].last

\* C17. Selector poll: each poll recomputes the selected value from the
\* current state; equal to the baseline under the equality function, the poll
\* returns the baseline instance itself and leaves the baseline unchanged,
\* otherwise the new value becomes the baseline and is returned. So what a
\* mounted hook returned last is its baseline, and a poll that finds no change
\* returns the instance the poll before it returned.
SelectorPoll ==
    /\ [](\A c \in Listeners : hooks[c].mounted => hooks[c].ret = hooks[c].last)
    /\ [][PollStep]_vars
    /\ [][\A c \in Listeners :
            (Polled(c) /\ hooks[c].mounted /\ EqualToBaseline(c)) =>
                hooks'[c].ret = hooks[c].ret]_vars

\* The first consumer selects an object built from field a and compares by
\* content; a write changed field b only, its listener was polled, and the
\* instance returned is the object it rendered before the write.
SelectorPollSeen ==
    /\ Quiet /\ op.kind = "setState" /\ op.s = HookStore
    /\ op.next # op.prev /\ FieldA(op.next) = FieldA(op.prev)
    /\ hooks["L1"].mounted /\ hooks["L1"].sel = "obj" /\ hooks["L1"].eq = "eqv"
    /\ hits[HookStore]["L1"] = 1
    /\ hooks["L1"].ret.id > 0
    /\ hooks["L1"].ret = hooks["L1"].value

\* The current top-level call is a setState outside a batch that changes
\* field a and leaves field b as it is.
OnlyFieldA ==
    /\ op.kind = "setState" /\ op.s = HookStore
    /\ FieldA(op.next) # FieldA(op.prev)
    /\ FieldB(op.next) = FieldB(op.prev)

\* The listener of consumer c's hook returns in this step.
ListenerPolled(c) ==
    /\ Top.kind = "listener" /\ Top.l = c /\ ~exc
    /\ stack' = Pop

\* In the pass of a write that changes field a only, the poll of a hook that
\* selects field a with the default equality returns the new value of the
\* field, which is not the value its last poll returned, and a render is
\* scheduled if the component had rendered that value; the poll of a hook
\* that selects field b with the default equality changes nothing.
IsolationStep ==
    \A c \in Listeners :
        (OnlyFieldA /\ ListenerPolled(c) /\ hooks[c].eq = "is") =>
            /\ hooks[c].sel \in {"a", "a2"} =>
                  /\ hooks'[c].ret.val = FieldA(op.next)
                  /\ hooks'[c].ret # hooks[c].ret
                  /\ hooks'[c].value = hooks[c].value
                  /\ hooks[c].value = hooks[c].ret => Scheduled(c)'
            /\ hooks[c].sel = "b" =>
                  /\ hooks'[c] = hooks[c]
                  /\ Scheduled(c)' = Scheduled(c)

\* C18. Selector isolation: two hooks on one store, one selecting field a and
\* one selecting field b, both with the default equality. A write that
\* changes field a only makes the first hook's poll return a new value, so its
\* consumer is given a render, and leaves the second hook as it was: its
\* consumer has no render scheduled by the write and observes no new value.
SelectorIsolation ==
    /\ [][IsolationStep]_vars
    /\ [](\A c \in Listeners :
            (Quiet /\ hooks[c].mounted /\ hooks[c].eq = "is" /\ hooks[c].sel # "obj") =>
                hooks[c].last.val = Selected(c))

\* Both consumers had rendered the current fields; a write changed field a
\* only and both listeners were called: the first consumer has a render
\* scheduled for the new value of field a, the second has none.
SelectorIsolationSeen ==
    /\ Quiet /\ OnlyFieldA
    /\ hooks["L1"].mounted /\ hooks["L1"].sel = "a" /\ hooks["L1"].eq = "is"
    /\ hooks["L2"].mounted /\ hooks["L2"].sel = "b" /\ hooks["L2"].eq = "is"
    /\ hits[HookStore]["L1"] = 1 /\ hits[HookStore]["L2"] = 1
    /\ hooks["L1"].value.val = FieldA(op.prev)
    /\ hooks["L1"].ret.val = FieldA(op.next)
    /\ Scheduled("L1")
    /\ hooks["L2"].value.val = FieldB(op.next)
    /\ ~Scheduled("L2")

\* Consumer c's hook is mounted with an equality that always reports equal.
AlwaysEqual(c) == hooks[c].mounted /\ hooks[c].eq = "always"

\* No step changes anything of a hook that keeps its selector and its
\* always-equal equality: not its baseline, not the value its polls return,
\* not the value its component rendered.
AlwaysEqualStep ==
    \A c \in Listeners :
        (AlwaysEqual(c) /\ AlwaysEqual(c)' /\ hooks'[c].sel = hooks[c].sel) =>
            hooks'[c] = hooks[c]

\* C19. Custom equality suppresses notification: a hook whose equality always
\* reports equal returns from every poll the baseline it was seeded with, the
\* instance its component rendered, whatever is written to the store: the
\* consumer has no render scheduled and observes no new value.
AlwaysEqualSuppresses ==
    /\ [](\A c \in Listeners :
            AlwaysEqual(c) =>
                /\ hooks[c].ret = hooks[c].last
                /\ hooks[c].value = hooks[c].last
                /\ ~Scheduled(c))
    /\ [][AlwaysEqualStep]_vars

\* The first consumer selects field a with an always-equal equality; a write
\* changed field a and its listener was polled: the poll returned the value
\* rendered before the write, which is no longer the field's.
AlwaysEqualSuppressesSeen ==
    /\ Quiet /\ op.kind = "setState" /\ op.s = HookStore
    /\ FieldA(op.next) # FieldA(op.prev)
    /\ AlwaysEqual("L1") /\ hooks["L1"].sel = "a"
    /\ hits[HookStore]["L1"] = 1
    /\ hooks["L1"].ret = hooks["L1"].value
    /\ hooks["L1"].ret.val = FieldA(op.prev)
    /\ hooks["L1"].ret.val # Selected("L1")

\* This step is a render of consumer c with a selector or an equality that is
\* not the one of its render before.
RenderedAnew(c) ==
    /\ AtTop /\ op'.kind = "render" /\ op'.l = c
    /\ hooks'[c].sel # hooks[c].sel \/ hooks'[c].eq # hooks[c].eq

\* After such a render the baseline is what the new selector selects from the
\* current state, an object no hook held before if the selector builds one,
\* and it is the value the render's poll returned and the component rendered.
ReseedStep ==
    \A c \in Listeners :
        RenderedAnew(c) =>
            /\ hooks'[c].last.val = Selected(c)'
            /\ hooks'[c].last.id \in UsedIds(hooks) <=> hooks'[c].sel # "obj"
            /\ hooks'[c].ret = hooks'[c].last
            /\ hooks'[c].value = hooks'[c].last

\* C20. Baseline re-seed: when a component renders with a selector or an
\* equality function of another identity than at its render before, the
\* baseline is recomputed at once from the current state with the new
\* selector, so the poll of that render, and every later one, compares
\* against and returns a value the new selector produced.
BaselineReseed == [][ReseedStep]_vars

\* The first consumer mounted with a selector of field a and an always-equal
\* equality and has just rendered with the selector of field b: the value it
\* rendered is the one selected from field a, which is not the value of b.
StaleBaselineSeen ==
    /\ Quiet /\ op.kind = "render" /\ op.l = "L1"
    /\ hooks["L1"].sel = "b" /\ hooks["L1"].eq = "always"
    /\ hooks["L1"].value.by = "a"
    /\ hooks["L1"].value.val # Selected("L1")

\* What the selector of consumer c's hook selects from the state the store
\* was constructed with.
SelectedAtConstruction(c) ==
    IF hooks[c].sel = "b" THEN FieldB(made[HookStore]) ELSE FieldA(made[HookStore])

\* C21. Server / first-render snapshot: whatever has been written to the
\* store, the server snapshot accessor of a mounted hook returns what the
\* hook's selector selects from the state the store was constructed with, a
\* value made by that selector.
ServerSnapshotFrozen ==
    \A c \in Listeners :
        hooks[c].mounted =>
            /\ getServerSnap(hooks, c).val = SelectedAtConstruction(c)
            /\ getServerSnap(hooks, c).by = hooks[c].sel

\* A write has changed field a, the first consumer's hook selects field a and
\* its listener was polled: the live snapshot is the new value of the field,
\* the server snapshot is the one of construction.
ServerSnapshotFrozenSeen ==
    /\ Quiet /\ op.kind = "setState" /\ op.s = HookStore
    /\ hooks["L1"].mounted /\ hooks["L1"].sel = "a" /\ hooks["L1"].eq = "is"
    /\ hits[HookStore]["L1"] = 1
    /\ hooks["L1"].ret.val = FieldA(state[HookStore])
    /\ FieldA(state[HookStore]) # FieldA(made[HookStore])
    /\ getServerSnap(hooks, "L1").val # hooks["L1"].ret.val

\* A bound action called on the store sets, in that step, the state to what
\* one of the transition functions returns for the state of that moment, and
\* schedules the notification as any gated write does.
SliceActionStep ==
    \A v \in Values :
        Called("update", HookStore, v) =>
            /\ \E k \in SliceArgs : v = pure(state[HookStore], k)
            /\ Effect(HookStore, v)

\* C22. Slice actions: a bound action sets the state to fns.name(prev,
\* ...args), prev being the state at the moment of the call, and when it
\* returns the store holds that value; so consecutive calls compose in call
\* order, also inside a batch, before any listener has been notified and
\* before any component has rendered again.
SliceActions ==
    /\ [][SliceActionStep]_vars
    /\ [](last.o = "update" => getState(last.s) = last.v)

\* Two bound actions were called in a batch that is still running: the second
\* was applied to the result of the first, no listener has been called and
\* the slice's component still shows field a of the state of construction.
SliceActionsSeen ==
    /\ depth > 0 /\ last.o = "update" /\ last.s = HookStore
    /\ sched[HookStore] = 2 /\ hits = NoHits
    /\ state[HookStore] = pure(pure(made[HookStore], 1), 1)
    /\ hooks["L1"].mounted /\ hooks["L1"].sel = "a"
    /\ react.slice["L1"].id # 0
    /\ hooks["L1"].value.val = FieldA(made[HookStore])
    /\ get("L1").val # hooks["L1"].value.val

\* What the selector of consumer c's slice selects from the root v.
SliceOf(c, v) == IF hooks[c].sel = "b" THEN FieldB(v) ELSE FieldA(v)

\* A write of v to the store, of any kind, is followed at once by a state in
\* which get() of every mounted slice answers with what its selector selects
\* from v: the call has returned, or is about to notify the listeners.
SliceGetStep ==
    \A o \in {"setState", "update", "replace", "reset"} : \A v \in Values :
        Called(o, HookStore, v) =>
            \A c \in Listeners :
                hooks'[c].mounted => get(c)'.val = SliceOf(c, v)

\* C23. Slice get(): right after any write to the store, by a bound action or
\* by setState, replace or reset, get() of a slice returns what the slice's
\* selector selects from the state just written, whether or not a listener
\* has been notified or the component has rendered again.
SliceGet ==
    /\ [][SliceGetStep]_vars
    /\ [](\A c \in Listeners :
            (hooks[c].mounted /\ last.o # "none" /\ last.s = HookStore) =>
                get(c).val = SliceOf(c, last.v))

\* A bound action has just returned inside a batch: no listener has been
\* called, the component of the slice on field a has not rendered again, and
\* get() answers with the field of the new state, not the rendered one.
SliceGetSeen ==
    /\ depth > 0 /\ last.o = "update" /\ last.s = HookStore
    /\ hits = NoHits /\ queue # <<>>
    /\ hooks["L1"].mounted /\ hooks["L1"].sel = "a"
    /\ get("L1").val = FieldA(last.v)
    /\ get("L1").val # hooks["L1"].value.val
    /\ hooks["L1"].value.val = hooks["L1"].last.val

\* This step is a render of controller component c with the deps d.
ControllerRender(c, d) ==
    /\ AtTop /\ op'.kind = "useActions" /\ op'.l = c
    /\ react'.ctrl[c].arg = d

\* A render with the deps of the render before returns the object that one
\* returned; a render with other deps, or the first one, returns an object no
\* hook has returned before this render.
ControllerStep ==
    \A c \in Controllers : \A d \in Deps :
        ControllerRender(c, d) =>
            IF react.ctrl[c].id # 0 /\ react.ctrl[c].deps = d
            THEN react'.ctrl[c] = react.ctrl[c]
            ELSE /\ react'.ctrl[c].id # 0
                 /\ react'.ctrl[c].id \notin UsedObjs(react)

\* C29. Controller identity follows deps: the actions object a controller
\* hook returns is the one of the previous render when the deps are
\* element-wise the same, and a newly built one when they have changed; no
\* write to the store and no other hook changes it.
ControllerIdentity ==
    /\ [][ControllerStep]_vars
    /\ [][(\A c \in Controllers, d \in Deps : ~ControllerRender(c, d)) =>
             (\A c \in Controllers :
                 react'.ctrl[c] = react.ctrl[c] \/ react'.ctrl[c] = NoMemo)]_vars

\* The controller's component has just rendered with deps other than those
\* of the render before, after the state changed: it holds a new object.
ControllerIdentitySeen ==
    /\ op.kind = "useActions" /\ op.l = "L1"
    /\ react.ctrl["L1"].deps = "d1" /\ react.ctrl["L1"].id = 2
    /\ state[HookStore] # made[HookStore]

\* As long as the component of slice c stays mounted, no step changes the
\* actions object its hook returns.
SliceIdentityStep ==
    \A c \in Listeners :
        (react.slice[c].id # 0 /\ hooks'[c].mounted) =>
            react'.slice[c].id = react.slice[c].id

\* C30. Slice action identity: the actions object of a slice hook is the same
\* object in every render of the component, whatever has been written to the
\* store in between, while the store is the same; it is bound to that store.
SliceIdentity ==
    /\ [][SliceIdentityStep]_vars
    /\ [](\A c \in Listeners :
            hooks[c].mounted =>
                react.slice[c].id # 0 /\ react.slice[c].deps = HookStore)

\* The component of the slice on field a has just rendered again and shows a
\* field other than that of the state of construction; its actions object
\* is the one of its first render.
SliceIdentitySeen ==
    /\ op.kind = "render" /\ op.l = "L1"
    /\ hooks["L1"].sel = "a"
    /\ hooks["L1"].value.val # FieldA(made[HookStore])
    /\ react.slice["L1"].id = 1 /\ react.slice["L1"].arg = HookStore
    /\ react.ctrl["L1"].id = 2

\* What the next poll of the scoped hook of component c returns.
NextPoll(c) == ctxGetSnapshot(hooks, c, state[HookStore])[c].ret

\* A top-level write of one of the kinds to the Provider's store has returned:
\* it did not throw, and the next poll of every mounted scoped hook, selector
\* or slice, returns its selection from the value the write computed.
SharedWrites(kinds) ==
    (Quiet /\ op.kind \in kinds /\ op.s = HookStore) =>
        /\ ~op.thrown
        /\ state[HookStore] = op.next
        /\ \A c \in Listeners :
              hooks[c].mounted => NextPoll(c).val = SliceOf(c, op.next)

\* The writes the store access has: slice actions, api.set with a plain value
\* or an updater, and api.replace are observed by every hook of the Provider.
SharedWritesObserved == SharedWrites({"setState", "replace"})

\* C24. One store per Provider: a write made through a slice action, api.set
\* with a plain value or an updater, api.replace or api.reset is observed by
\* the next poll of every selector and slice under the Provider, reset
\* writing the initial state.
SharedStore == SharedWrites({"setState", "replace", "reset"})

\* A controller action called api.reset() after the state had been written:
\* the call threw, and both mounted hooks still poll the written state.
SharedStoreResetSeen ==
    /\ Quiet /\ op.kind = "reset" /\ op.thrown
    /\ state[HookStore] # initial[HookStore]
    /\ hooks["L1"].mounted /\ hooks["L1"].sel = "a" /\ hooks["L2"].mounted
    /\ NextPoll("L1").val = FieldA(state[HookStore])
    /\ NextPoll("L2").val # FieldB(initial[HookStore])

\* The hooks createContextSync returns.
ScopedHooks == {"useSelector", "useActions", "useBoundActions", "useSlice"}

\* A step taken while no Provider is rendered, and that renders none, is a
\* call of a scoped hook (nothing else can be called): it throws and leaves
\* the hooks' refs, the memo cells, the Provider and the stores as they are.
OutsideProviderStep ==
    (~react.provider.mounted /\ ~react'.provider.mounted) =>
        /\ op'.kind \in ScopedHooks /\ op'.thrown
        /\ hooks' = hooks /\ react' = react
        /\ state' = state /\ listeners' = listeners /\ made' = made

\* C25. Scoped hooks outside a Provider: useSelector, useActions, the hook
\* bindActions returned and the hook createSlice returned throw the
\* configuration error when called with no Provider rendered; no store is
\* made, and no selector and no factory is called.
NotProvisionedThrows ==
    /\ [][OutsideProviderStep]_vars
    /\ [](~react.provider.mounted =>
            /\ react.provider.stores = 0
            /\ hooks = [c \in Listeners |-> NoHook]
            /\ \A c \in Listeners :
                  react.ctrl[c] = NoMemo /\ react.slice[c] = NoMemo)

\* The slice hook has just thrown in component L2, no Provider being rendered.
NotProvisionedThrowsSeen ==
    /\ ~react.provider.mounted
    /\ op.kind = "useSlice" /\ op.l = "L2" /\ op.thrown
    /\ ~hooks["L2"].mounted /\ react.slice["L2"] = NoMemo

\* This step is a render of the Provider that is not its first one.
ProviderRerender ==
    react.provider.mounted /\ AtTop /\ op'.kind = "Provider"

\* The store of a rendered Provider: made once, with the initial value of the
\* first render, which stays its initial state; no later render touches the
\* store, its state, its listeners or the hooks.
ProviderStore ==
    /\ [](react.provider.mounted =>
            /\ react.provider.stores = 1
            /\ initial[HookStore] = made[HookStore])
    /\ [][ProviderRerender =>
            /\ state' = state /\ initial' = initial /\ made' = made
            /\ listeners' = listeners /\ hooks' = hooks
            /\ react'.provider.stores = react.provider.stores]_vars

\* C26. Provider store lifetime: a rendered Provider makes its store exactly
\* once, with the initial value of its first render; later renders, also with
\* another initial value, leave the store, its state and its initial state as
\* they are, and the server snapshot stays the initial value of the first
\* render, whatever that value is, null included.
ProviderLifetime ==
    /\ ProviderStore
    /\ [](react.provider.mounted => ctxGetServerSnapshot = made[HookStore])

\* The Provider was first rendered with null and has just been rendered with
\* another initial value, which is now the server snapshot.
ProviderLifetimeSeen ==
    /\ react.provider.mounted /\ op.kind = "Provider"
    /\ made[HookStore] = Null /\ initial[HookStore] = Null
    /\ ctxGetServerSnapshot # Null

\* C27. Batching covers Provider stores: while a work function of batch() is
\* running no listener of the Provider's store has been called, and when the
\* outermost batch has ended after the store changed, each listener of the
\* store has been called exactly once.
ProviderBatching ==
    /\ [](depth > 0 => hits = NoHits)
    /\ []((Quiet /\ op.kind = "batch" /\ Written(HookStore)) =>
             InvokedOnce(HookStore))

\* A write has just returned into a work function that is still running, and
\* the listener of the mounted selector hook has already been called for it.
ProviderBatchingSeen ==
    /\ depth > 0 /\ Top.kind = "batch"
    /\ last.o # "none" /\ last.s = HookStore
    /\ hooks["L1"].mounted
    /\ hits[HookStore]["L1"] = 1
    /\ hooks["L1"].ret.val = SliceOf("L1", last.v)
    /\ hooks["L1"].ret.val # hooks["L1"].value.val

\* Flow f has added its todo and not removed it.
FlowHolds(f) ==
    \/ react.flow[f].pc = "await"
    \/ react.flow[f].pc = "add" /\ FlowWritten
    \/ react.flow[f].pc = "remove" /\ ~FlowWritten

\* A write of a segment is applied, in one step, to the state of the moment
\* of the call, whatever the flow saw before its await.
FlowWriteStep ==
    \A v \in Values :
        (Top.kind = "flow" /\ Called("update", HookStore, v)) =>
            /\ v = pure(state[HookStore], FlowArg(Top.l))
            /\ Effect(HookStore, v)

UpdaterThrowStep ==
    (last'.o = "throw" /\ last' # last) =>
        /\ exc'
        /\ state' = state /\ queue' = queue /\ listeners' = listeners
        /\ depth' = depth
        /\ hits' = HitsNow /\ sched' = SchedNow
        /\ \A i \in 1..Len(stack') : stack'[i].kind # "notify"

\* C31: an updater that throws inside setState leaves the store as it was:
\* the exception goes to the caller, the state is unchanged, no listener is
\* invoked and no notifier is enqueued, inside a batch and outside; a
\* top-level setState whose updater threw (it computed no value, next is -1)
\* has changed nothing and invoked nobody.
UpdaterThrows ==
    /\ [][UpdaterThrowStep]_vars
    /\ [](last.o = "throw" => exc)
    /\ []((AtTop /\ op.kind = "setState" /\ op.next = -1 /\ op.thrown) =>
            /\ state[op.s] = op.prev
            /\ hits = NoHits /\ queue = <<>>)

\* Inside a batch, after a write that changed store A and queued its
\* notifier, an updater of store B has thrown: A's notifier alone is queued.
UpdaterThrowsSeen ==
    /\ depth > 0 /\ exc /\ last.o = "throw" /\ last.s = "B"
    /\ queue = <<"A">> /\ state["A"] # made["A"] /\ state["B"] = made["B"]
    /\ listeners["B"] # <<>> /\ hits = NoHits

\* -------------------------------------------------------------------- C32
\* C32: no notification is lost. Whatever writes, batches and nested batches
\* were made, by the application or by listeners during a pass or a flush,
\* when control is back at the top level (no activation left, depth 0) every
\* listener that was subscribed when its store last changed and has stayed
\* subscribed has been invoked since that change.
NoLostNotification ==
    (Quiet /\ depth = 0) => \A s \in Stores : owed.of[s] \cap Range(listeners[s]) = {}

\* A top-level setState of store A is over, during whose pass a listener of A
\* wrote A again: the state is not the one the call computed, both listeners
\* of A have been invoked more than once and none is owed a call.
NoLostNotificationSeen ==
    /\ Quiet /\ owed.on /\ op.kind = "setState" /\ op.s = "A"
    /\ Len(listeners["A"]) = 2
    /\ \A l \in Listeners : hits["A"][l] = 2
    /\ state["A"] # op.next /\ sched["A"] = 2

\* -------------------------------------------------------------------- C33
\* C33: when a top-level batch is over, every store written in it whose
\* notifier was queued has had its notifier invoked (its first listener, when
\* it has one, has been called), also when a listener threw during the flush.
FlushSurvivesListener ==
    (Quiet /\ depth = 0 /\ op.kind = "batch") =>
        \A s \in Stores :
            (Written(s) /\ listeners[s] # <<>>) => hits[s][listeners[s][1]] >= 1

\* A batch wrote both stores and is over with an exception: the one listener
\* of store A was invoked by the flush and threw, the one of store B was not
\* invoked, and the queue is empty, so no later flush will invoke it.
FlushAbortedSeen ==
    /\ Quiet /\ depth = 0 /\ op.kind = "batch" /\ op.thrown
    /\ Written("A") /\ Written("B") /\ queue = <<>>
    /\ Len(listeners["A"]) = 1 /\ Len(listeners["B"]) = 1
    /\ hits["A"][listeners["A"][1]] = 1
    /\ NotInvoked("B")

\* -------------------------------------------------------------------- C34
\* A step that starts a pass of a store, and one that invokes a listener.
PassStarts == Len(stack') = Len(stack) + 1 /\ Top'.kind = "notify"
Invokes == Len(stack') = Len(stack) + 1 /\ Top'.kind = "listener"

\* C34 as stated: a listener is invoked only while it is subscribed, so one
\* whose unsubscribe has returned is never invoked again, not even by a pass
\* that was under way when another listener unsubscribed it.
NoInvocationAfterUnsubscribe ==
    [][Invokes => Top'.l \in Range(listeners[Top'.s])]_vars

\* C34 as the store does it: a pass invokes the listeners that were
\* subscribed when it started, in their order, each at most once. So a
\* listener whose unsubscribe returned before a pass started, the flush of a
\* batch written earlier included, is not invoked by it, and one that another
\* listener unsubscribes during a pass is still invoked by that pass.
PassStep ==
    /\ PassStarts => Top'.run = listeners[Top'.s] /\ Top'.i = 1
    /\ Invokes =>
          /\ Top.kind = "notify" /\ Top'.s = Top.s /\ Top'.l = Top.run[Top.i]
          /\ stack'[Len(stack)] = [Top EXCEPT !.i = @ + 1]
    /\ \A k \in 1..Len(stack) :
          (k <= Len(stack') /\ stack[k].kind = "notify") =>
              /\ stack'[k].run = stack[k].run /\ stack'[k].s = stack[k].s
              /\ stack'[k].i >= stack[k].i

InvokesSnapshot ==
    /\ [][PassStep]_vars
    /\ [](\A k \in 1..Len(stack) : stack[k].kind = "notify" =>
            \A a, b \in 1..Len(stack[k].run) :
                stack[k].run[a] = stack[k].run[b] => a = b)

\* The pass of store A is invoking L2, which L1, invoked before it in the same
\* pass, has unsubscribed.
InvokesSnapshotSeen ==
    /\ Top.kind = "listener" /\ Top.s = "A" /\ Top.l = "L2"
    /\ "L2" \notin Range(listeners["A"])
    /\ hits["A"]["L1"] = 1 /\ hits["A"]["L2"] = 1
    /\ stack[Len(stack) - 1].run = <<"L1", "L2">>

\* -------------------------------------------------------------------- C35
\* C35: the batch depth is never negative and is the number of batch calls
\* whose work function is running; when no call is under way it is 0,
\* whatever threw: the work function, a nested batch, an updater, or a
\* listener invoked during the flush.
BatchDepth ==
    /\ depth >= 0
    /\ depth = Running
    /\ AtTop => depth = 0

\* A batch with a nested batch in it wrote both stores; the flush invoked the
\* listener of A, which threw, and the exception is on its way out of the
\* top-level batch call: the depth is 0.
BatchDepthSeen ==
    /\ AtTop /\ exc /\ op.kind = "batch" /\ op.inner /\ depth = 0
    /\ Written("A") /\ Written("B")
    /\ Len(listeners["A"]) = 1 /\ Len(listeners["B"]) = 1
    /\ hits["A"][listeners["A"][1]] = 1 /\ NotInvoked("B")

\* -------------------------------------------------------------------- C36
\* The batches under way that the activation at position k was started in:
\* work functions below it on the stack.
BatchesBelow(k) == Cardinality({j \in 1..k : stack[j].kind = "batch"})

\* C36: no listener is invoked inside an active batch. Every invocation
\* happens at depth 0, by a pass a write outside any batch started or by the
\* flush that follows the decrement to 0; no flush, pass or listener has a
\* running work function below it, and the batches a listener opens are above
\* it, so the depth is the number of those.
NoListenerInBatch ==
    /\ [][Invokes => depth = 0 /\ depth' = 0]_vars
    /\ [](\A k \in 1..Len(stack) :
            stack[k].kind \in {"flush", "notify", "listener"} =>
                BatchesBelow(k) = 0)

\* A listener invoked by the flush of a batch has opened a batch of its own:
\* the depth is 1 again, the listener is below the new work function, and the
\* pass that invoked it has a second listener still to invoke.
NoListenerInBatchSeen ==
    /\ depth = 1 /\ Top.kind = "batch" /\ op.kind = "batch" /\ Len(stack) = 4
    /\ stack[1].kind = "flush" /\ stack[2].kind = "notify"
    /\ stack[3].kind = "listener"
    /\ Len(stack[2].run) = 2 /\ stack[2].i = 2

\* -------------------------------------------------------------------- C37
\* A write made by a work function returns: last' is the write, and of the
\* calls a work function makes only a write leaves its mark there.
WriteInBatch ==
    /\ depth > 0 /\ depth' = depth /\ fuel' = fuel - 1
    /\ last'.o \in {"setState", "update", "replace", "reset"}

\* The gate of that write: it compares the value computed with the state of
\* that moment; when they differ it assigns and queues the notifier, when they
\* are the same reference it does nothing. No listener is invoked.
GatedWriteStep ==
    WriteInBatch =>
        /\ IF ObjectIs(last'.v, state[last'.s])
           THEN state' = state /\ queue' = queue /\ sched' = sched
           ELSE /\ state' = [state EXCEPT ![last'.s] = last'.v]
                /\ queue' = SetAdd(queue, last'.s)
                /\ sched' = [sched EXCEPT ![last'.s] = Count(@)]
        /\ hits' = hits /\ stack' = stack

\* C37: inside a batch every write is gated by itself against the state of
\* its moment. A store is in the queue exactly when one of the writes of the
\* batch passed the gate, and when the batch is over its listeners have been
\* invoked once if one did and not at all if none did, whatever the state is
\* at the end: the state at the start of the batch is not compared with it.
PerWriteGate ==
    /\ [][GatedWriteStep]_vars
    /\ []((depth > 0 /\ op.kind = "batch" /\ ~exc) =>
            Range(queue) = {s \in Stores : Written(s)})
    /\ []((Quiet /\ op.kind = "batch") =>
            \A s \in Stores : IF Written(s) THEN InvokedOnce(s) ELSE NotInvoked(s))

\* A batch wrote store A twice, both writes passing the gate, and A holds the
\* reference it was constructed with (in the shortest behaviour the one it held
\* when the batch started): its two listeners were invoked once each. Store B
\* was not written and its listener was not invoked.
PerWriteGateSeen ==
    /\ Quiet /\ op.kind = "batch" /\ ~op.thrown
    /\ sched["A"] = 2 /\ state["A"] = made["A"]
    /\ Len(listeners["A"]) = 2 /\ \A l \in Listeners : hits["A"][l] = 1
    /\ sched["B"] = 0 /\ listeners["B"] # <<>> /\ NotInvoked("B")

\* -------------------------------------------------------------------- C38
\* How many times listener l is registered with store s.
Registered(s, l) == Cardinality({k \in 1..Len(listeners[s]) : listeners[s][k] = l})

\* A top-level subscribe of a callback that is subscribed already changes
\* nothing; one of a callback that is not registers it, after the others.
SubscribeStep ==
    (AtTop /\ ~exc /\ stack' = <<>> /\ op'.kind = "subscribe") =>
        /\ \A s \in Stores \ {op'.s} : listeners'[s] = listeners[s]
        /\ listeners'[op'.s] = IF op'.had THEN listeners[op'.s]
                               ELSE Append(listeners[op'.s], op'.l)

\* C38: listeners are de-duplicated by identity. A callback is registered
\* with a store at most once, however often it was subscribed; a pass holds
\* it at most once and in the passive specification, where one top-level call
\* makes at most one pass per store, it is invoked at most once; when any one
\* of the functions subscribe returned for it has been called it is not
\* registered at all.
ListenerDedup ==
    /\ [][SubscribeStep]_vars
    /\ [](\A s \in Stores, l \in Listeners : Registered(s, l) <= 1 /\ hits[s][l] <= 1)
    /\ [](\A k \in 1..Len(stack) : stack[k].kind = "notify" =>
            \A l \in Listeners :
                Cardinality({j \in 1..Len(stack[k].run) : stack[k].run[j] = l}) <= 1)
    /\ []((AtTop /\ op.kind = "unsubscribe") => Registered(op.s, op.l) = 0)

\* L1 has been subscribed to store A again, being subscribed already: it is
\* registered once, after L2 as before.
ListenerDedupSeen ==
    /\ Quiet /\ op.kind = "subscribe" /\ op.s = "A" /\ op.l = "L1" /\ op.had
    /\ listeners["A"] = <<"L2", "L1">> /\ Registered("A", "L1") = 1

====
